---- MODULE Spec2Model ----
(***************************************************************************)
(* Model of the goblin dependency container (package di) and of the        *)
(* application lifecycle manager (package core).                           *)
(*                                                                         *)
(*   SpecLifecycle      LifecycleManager driven by arbitrary Run* calls    *)
(*   SpecFullLifecycle  LifecycleManager driven by the four Run* calls in  *)
(*                      the documented order, once each                    *)
(*   SpecProviders      LifecycleManager with providers registered by      *)
(*                      RegisterProviders or ExtractLifecycleHooks         *)
(*   SpecApp            GoblinApp: NewGoblinApp, Start, and Stop on signal *)
(*   SpecCycleCheck     Container: Register on diamonds and cycles         *)
(*   SpecHooks          LifecycleManager: hooks that call GetState and     *)
(*                      RegisterShutdownHook while a Run* operation runs   *)
(*   SpecKeys           Container: types of the same name in two packages  *)
(*   SpecRetry          Container: a dependency registered after a Resolve *)
(*                      that needed it                                     *)
(*   SpecGraph          Container: singletons of a diamond resolved by      *)
(*                      concurrent threads, under weak fairness            *)
(*   Spec               Container: Register and concurrent Resolve         *)
(*   SpecSequential     Container: Register and Resolve by one thread      *)
(*   SpecRegistry       Container: Register of any value, valid or not,    *)
(*                      and Resolve by one thread                          *)
(*   SpecUnrelated      Container: providers without dependencies and      *)
(*                      concurrent Resolve                                 *)
(*   SpecInject         Register and Inject                                *)
(***************************************************************************)
EXTENDS Integers, Sequences, FiniteSets, TLC

(***************************************************************************)
(* Bounds of the model.                                                    *)
(***************************************************************************)
MaxModules == 2
MaxProviders == 2
MaxExtracts == 1
MaxAppModules == 1
MaxModuleProviders == 1
MaxAppHooks == 1
MaxShutdownHooks == 2
MaxCalls == 2
MaxRegs == 2
MaxGraphRegs == 4
MaxResolves == 2
MaxDepth == 4
NumThreads == 2
NumContexts == 2
MaxFields == 2
MaxInjects == 1

(***************************************************************************)
(* core.LifecycleState (iota constants).                                   *)
(***************************************************************************)
StateNotStarted == 0
StateModuleInit == 1
StateAppBootstrap == 2
StateRunning == 3
StateAppShutdown == 4
StateModuleDestroy == 5

VARIABLES
    state,          \* LifecycleManager.state
    modules,        \* LifecycleManager.modules
    providers,      \* LifecycleManager.providers
    shutdownHooks,  \* LifecycleManager.shutdownHooks
    lpc,            \* position of the thread that called a Run* operation
    invoked,        \* hooks invoked by the current (or last) Run* call, in order
    ret,            \* value returned by the last Run* call
    nextId,         \* identity given to the next registered module, provider or hook
    callSeq,        \* history: the Run* calls made so far
    stateTrace,     \* history: successive values of state
    hookCalls,      \* history: hooks invoked over all calls
    hookLog,        \* history: the hooks invoked over all calls, in order
    provLog,        \* history: the RegisterProviders and ExtractLifecycleHooks calls
    cproviders,     \* Container.providers: type -> *Provider (0 when absent)
    heap,           \* the Provider objects, by address
    keys,           \* gin.Context.Keys of every request context
    threads,        \* call stack of every thread calling Resolve
    insts,          \* the instances constructed so far, by address
    results,        \* history: the Resolve calls that returned
    regLog,         \* history: the Register calls and their results
    injLog,         \* history: the Inject calls and their results
    mmodules,       \* ModuleManager.modules of the GoblinApp
    apc,            \* position of the goroutine that called GoblinApp.Start
    ipending,       \* modules InitializeModules has not ranged over yet
    startRet,       \* value returned by GoblinApp.Start
    spc,            \* position of the goroutine that called GoblinApp.Stop
    slpc,           \* position of that goroutine inside a Run* operation
    dpending,       \* modules DestroyModules has not ranged over yet
    stateMutex,     \* LifecycleManager.stateMutex: 0 or the goroutine holding it
    observed,       \* history: the calls hooks made on the manager while running
    registerRet     \* value returned by the last GoblinApp.RegisterModules

lVars == <<state, modules, providers, shutdownHooks, lpc, invoked, ret,
           nextId, callSeq, stateTrace, hookCalls, hookLog, provLog>>

cVars == <<cproviders, heap, keys, threads, insts, results, regLog>>

gVars == <<mmodules, apc, ipending, startRet, spc, slpc, dpending>>

hVars == <<stateMutex, observed, registerRet>>

aVars == <<injLog, gVars, hVars>>

vars == <<state, modules, providers, shutdownHooks, lpc, invoked, ret,
          nextId, callSeq, stateTrace, hookCalls, hookLog, provLog,
          cproviders, heap, keys, threads, insts, results, regLog, injLog,
          mmodules, apc, ipending, startRet, spc, slpc, dpending,
          stateMutex, observed, registerRet>>

(***************************************************************************)
(* Hook participants.  A module value always has OnModuleInit and          *)
(* OnModuleDestroy (the Module interface demands them); "Full" also has    *)
(* the two application hooks.  A provider entry is a concrete instance     *)
(* with all four hooks ("Full") or a bare constructor function ("Func").   *)
(* A registered entry is a kind and the identity of the value.             *)
(***************************************************************************)
HookKinds == {"OnModuleInit", "OnApplicationBootstrap",
              "OnApplicationShutdown", "OnModuleDestroy"}

ModuleKinds == {"Full", "Base"}
ProviderKinds == {"Full", "Func"}

\* the type assertion  x.(OnModuleInit)  etc.
Implements(entry, hook) ==
    CASE entry = "Full" -> TRUE
      [] entry = "Base" -> hook \in {"OnModuleInit", "OnModuleDestroy"}
      [] OTHER -> FALSE

\* the nil error, and the result of an operation that has not returned
Nil == <<"nil">>
Pending == <<"pending">>
Idle == [op |-> "idle", loop |-> "none", i |-> 0]

\* a sync.RWMutex nobody holds
Unlocked == 0

\* the goroutine that calls the Run* operations
Caller == 1

\* the error value a failing hook returns: one distinct value per hook
HookError(id, hook) == <<"error", id, hook>>

\* the values a registration call passes: kinds ks, identities from n on
Values(ks, n) == [k \in 1..Len(ks) |-> [kind |-> ks[k], id |-> n + k - 1]]

SeqsUpTo(S, n) == UNION {[1..k -> S] : k \in 1..n}

InitLifecycle ==
    /\ state = StateNotStarted
    /\ modules = <<>>
    /\ providers = <<>>
    /\ shutdownHooks = <<>>
    /\ lpc = Idle
    /\ invoked = <<>>
    /\ ret = Nil
    /\ nextId = 1
    /\ callSeq = <<>>
    /\ stateTrace = <<StateNotStarted>>
    /\ hookCalls = {}
    /\ hookLog = <<>>
    /\ provLog = <<>>
    /\ stateMutex = Unlocked
    /\ observed = {}
    /\ registerRet = Nil

(***************************************************************************)
(* Registration.  The driver registers during application assembly,        *)
(* before the first phase operation.                                       *)
(***************************************************************************)
Assembling == lpc = Idle /\ callSeq = <<>>

\* mutant: new modules are put in front of the registered ones
RegisterModules_Prepend(ms) ==
    /\ Assembling
    /\ Len(modules) + Len(ms) <= MaxModules
    /\ modules' = Values(ms, nextId) \o modules
    /\ nextId' = nextId + Len(ms)
    /\ UNCHANGED <<state, providers, shutdownHooks, lpc, invoked, ret,
                   callSeq, stateTrace, hookCalls, hookLog, provLog>>
    /\ UNCHANGED <<cVars, aVars>>

RegisterModules(ms) ==
    /\ Assembling
    /\ Len(modules) + Len(ms) <= MaxModules
    /\ modules' = modules \o Values(ms, nextId)
    /\ nextId' = nextId + Len(ms)
    /\ UNCHANGED <<state, providers, shutdownHooks, lpc, invoked, ret,
                   callSeq, stateTrace, hookCalls, hookLog, provLog>>
    /\ UNCHANGED <<cVars, aVars>>

RegisterProviders(ps) ==
    /\ Assembling
    /\ Len(providers) + Len(ps) <= MaxProviders
    /\ providers' = providers \o Values(ps, nextId)
    /\ nextId' = nextId + Len(ps)
    /\ provLog' = Append(provLog, [op |-> "RegisterProviders",
                                   values |-> Values(ps, nextId)])
    /\ UNCHANGED <<state, modules, shutdownHooks, lpc, invoked, ret,
                   callSeq, stateTrace, hookCalls, hookLog>>
    /\ UNCHANGED <<cVars, aVars>>

\* providerType.Kind() == reflect.Func
IsFunc(v) == v.kind = "Func"
NotFunc(v) == ~IsFunc(v)

\* the calls of ExtractLifecycleHooks so far
Extracts ==
    Cardinality({n \in 1..Len(provLog) :
                    provLog[n].op = "ExtractLifecycleHooks"})

\* mutant: function providers are added like the others
ExtractLifecycleHooks_KeepAll(ps) ==
    /\ Assembling
    /\ Extracts < MaxExtracts
    /\ Len(providers) + Len(SelectSeq(Values(ps, nextId), NotFunc)) <= MaxProviders
    /\ providers' = providers \o Values(ps, nextId)
    /\ nextId' = nextId + Len(ps)
    /\ provLog' = Append(provLog, [op |-> "ExtractLifecycleHooks",
                                   values |-> Values(ps, nextId)])
    /\ UNCHANGED <<state, modules, shutdownHooks, lpc, invoked, ret,
                   callSeq, stateTrace, hookCalls, hookLog>>
    /\ UNCHANGED <<cVars, aVars>>

\* the loop skips the function providers (factories) and appends the rest
ExtractLifecycleHooks(ps) ==
    /\ Assembling
    /\ Extracts < MaxExtracts
    /\ Len(providers) + Len(SelectSeq(Values(ps, nextId), NotFunc)) <= MaxProviders
    /\ providers' = providers \o SelectSeq(Values(ps, nextId), NotFunc)
    /\ nextId' = nextId + Len(ps)
    /\ provLog' = Append(provLog, [op |-> "ExtractLifecycleHooks",
                                   values |-> Values(ps, nextId)])
    /\ UNCHANGED <<state, modules, shutdownHooks, lpc, invoked, ret,
                   callSeq, stateTrace, hookCalls, hookLog>>
    /\ UNCHANGED <<cVars, aVars>>

RegisterShutdownHook ==
    /\ Assembling
    /\ Len(shutdownHooks) < MaxShutdownHooks
    /\ shutdownHooks' = Append(shutdownHooks, [kind |-> "hook", id |-> nextId])
    /\ nextId' = nextId + 1
    /\ UNCHANGED <<state, modules, providers, lpc, invoked, ret,
                   callSeq, stateTrace, hookCalls, hookLog, provLog>>
    /\ UNCHANGED <<cVars, aVars>>

(***************************************************************************)
(* The loops of the Run* operations.  A position is the loop and the index *)
(* of the iteration to execute next; "return" when all loops are done.     *)
(***************************************************************************)
Pos(op, loop, i) == [op |-> op, loop |-> loop, i |-> i]

\* mutant: the shutdown loops run from the last entry to the first
Forward_ShutdownBackward(op) == op \in {"RunModuleInit", "RunAppBootstrap"}

Forward(op) == op \in {"RunModuleInit", "RunAppBootstrap", "RunAppShutdown"}

HookOf(op) ==
    CASE op = "RunModuleInit" -> "OnModuleInit"
      [] op = "RunAppBootstrap" -> "OnApplicationBootstrap"
      [] op = "RunAppShutdown" -> "OnApplicationShutdown"
      [] op = "RunModuleDestroy" -> "OnModuleDestroy"

\* entering the loop over the ad-hoc shutdown hooks (RunAppShutdown only)
EnterHooks(op) ==
    IF op = "RunAppShutdown" /\ Len(shutdownHooks) > 0
    THEN Pos(op, "hooks", 1)
    ELSE Pos(op, "return", 0)

\* entering the loop over the providers
EnterProviders(op) ==
    IF Len(providers) > 0
    THEN Pos(op, "providers", IF Forward(op) THEN 1 ELSE Len(providers))
    ELSE EnterHooks(op)

\* mutant: the module loop always starts at the first module
EnterModules_FromFirst(op) ==
    IF Len(modules) > 0
    THEN Pos(op, "modules", 1)
    ELSE EnterProviders(op)

\* entering the loop over the modules
EnterModules(op) ==
    IF Len(modules) > 0
    THEN Pos(op, "modules", IF Forward(op) THEN 1 ELSE Len(modules))
    ELSE EnterProviders(op)

\* the position after iteration p.i of loop p.loop
After(p) ==
    LET n == IF p.loop = "modules" THEN Len(modules)
             ELSE IF p.loop = "providers" THEN Len(providers)
             ELSE Len(shutdownHooks)
        j == IF Forward(p.op) THEN p.i + 1 ELSE p.i - 1
    IN  IF j >= 1 /\ j <= n THEN Pos(p.op, p.loop, j)
        ELSE IF p.loop = "modules" THEN EnterProviders(p.op)
        ELSE IF p.loop = "providers" THEN EnterHooks(p.op)
        ELSE Pos(p.op, "return", 0)

\* mutant: the lock is kept until the operation returns (defer Unlock)
SetState_DeferUnlock(s) ==
    /\ stateMutex = Unlocked
    /\ state' = s
    /\ stateTrace' = Append(stateTrace, s)
    /\ stateMutex' = Caller

\* m.stateMutex.Lock(); m.state = s; m.stateMutex.Unlock()
SetState(s) ==
    /\ stateMutex = Unlocked
    /\ state' = s
    /\ stateTrace' = Append(stateTrace, s)
    /\ stateMutex' = Unlocked

Begin(op, s) ==
    /\ lpc = Idle
    /\ SetState(s)
    /\ lpc' = EnterModules(op)
    /\ invoked' = <<>>
    /\ ret' = Pending
    /\ callSeq' = Append(callSeq, op)
    /\ UNCHANGED <<modules, providers, shutdownHooks, nextId, hookCalls, hookLog,
                   provLog>>
    /\ UNCHANGED <<cVars, injLog, gVars, observed, registerRet>>

\* the entry the current iteration looks at
Entry(p) ==
    IF p.loop = "modules" THEN modules[p.i]
    ELSE IF p.loop = "providers" THEN providers[p.i]
    ELSE shutdownHooks[p.i]

\* does the current iteration call a hook
Calls(p) ==
    IF p.loop = "hooks" THEN TRUE ELSE Implements(Entry(p).kind, HookOf(p.op))

\* the hook the current iteration calls
Callee(p) == IF p.loop = "hooks" THEN "hook" ELSE HookOf(p.op)

Record(p, err) ==
    [list |-> p.loop, id |-> Entry(p).id, hook |-> Callee(p), err |-> err]

\* mutant: the loop goes on after a hook erred
FailFastIteration_Continue(op) ==
    /\ lpc.op = op
    /\ lpc.loop \in {"modules", "providers"}
    /\ IF Calls(lpc)
       THEN \E err \in {Nil, HookError(Entry(lpc).id, Callee(lpc))} :
              /\ invoked' = Append(invoked, Record(lpc, err))
              /\ hookCalls' = hookCalls \cup {<<Entry(lpc).id, Callee(lpc)>>}
              /\ hookLog' = Append(hookLog, <<Entry(lpc).id, Callee(lpc)>>)
       ELSE UNCHANGED <<invoked, hookCalls, hookLog>>
    /\ lpc' = After(lpc)
    /\ UNCHANGED <<state, modules, providers, shutdownHooks, ret, nextId,
                   callSeq, stateTrace, provLog>>
    /\ UNCHANGED <<cVars, aVars>>

\* one iteration of a fail-fast loop: if err := hook(ctx); err != nil { return err }
FailFastIteration(op) ==
    /\ lpc.op = op
    /\ lpc.loop \in {"modules", "providers"}
    /\ IF Calls(lpc)
       THEN \E err \in {Nil, HookError(Entry(lpc).id, Callee(lpc))} :
              /\ invoked' = Append(invoked, Record(lpc, err))
              /\ hookCalls' = hookCalls \cup {<<Entry(lpc).id, Callee(lpc)>>}
              /\ hookLog' = Append(hookLog, <<Entry(lpc).id, Callee(lpc)>>)
              /\ IF err # Nil
                 THEN lpc' = Idle /\ ret' = err
                 ELSE lpc' = After(lpc) /\ ret' = ret
       ELSE /\ lpc' = After(lpc)
            /\ UNCHANGED <<invoked, hookCalls, hookLog, ret>>
    /\ UNCHANGED <<state, modules, providers, shutdownHooks, nextId, callSeq,
                   stateTrace, provLog>>
    /\ UNCHANGED <<cVars, aVars>>

\* mutant: the loop returns the error of the first hook that errs
BestEffortIteration_Abort(op) ==
    /\ lpc.op = op
    /\ lpc.loop \in {"modules", "providers", "hooks"}
    /\ IF Calls(lpc)
       THEN \E err \in {Nil, HookError(Entry(lpc).id, Callee(lpc))} :
              /\ invoked' = Append(invoked, Record(lpc, err))
              /\ hookCalls' = hookCalls \cup {<<Entry(lpc).id, Callee(lpc)>>}
              /\ hookLog' = Append(hookLog, <<Entry(lpc).id, Callee(lpc)>>)
              /\ IF err # Nil
                 THEN lpc' = Idle /\ ret' = err
                 ELSE lpc' = After(lpc) /\ ret' = ret
       ELSE /\ lpc' = After(lpc)
            /\ UNCHANGED <<invoked, hookCalls, hookLog, ret>>
    /\ UNCHANGED <<state, modules, providers, shutdownHooks, nextId, callSeq,
                   stateTrace, provLog>>
    /\ UNCHANGED <<cVars, aVars>>

\* one iteration of a best-effort loop: if err := hook(ctx); err != nil { log }
BestEffortIteration(op) ==
    /\ lpc.op = op
    /\ lpc.loop \in {"modules", "providers", "hooks"}
    /\ IF Calls(lpc)
       THEN \E err \in {Nil, HookError(Entry(lpc).id, Callee(lpc))} :
              /\ invoked' = Append(invoked, Record(lpc, err))
              /\ hookCalls' = hookCalls \cup {<<Entry(lpc).id, Callee(lpc)>>}
              /\ hookLog' = Append(hookLog, <<Entry(lpc).id, Callee(lpc)>>)
       ELSE UNCHANGED <<invoked, hookCalls, hookLog>>
    /\ lpc' = After(lpc)
    /\ UNCHANGED <<state, modules, providers, shutdownHooks, ret, nextId,
                   callSeq, stateTrace, provLog>>
    /\ UNCHANGED <<cVars, aVars>>

\* return nil
ReturnNil(op) ==
    /\ lpc.op = op
    /\ lpc.loop = "return"
    /\ lpc' = Idle
    /\ ret' = Nil
    /\ UNCHANGED <<state, modules, providers, shutdownHooks, invoked, nextId,
                   callSeq, stateTrace, hookCalls, hookLog, provLog>>
    /\ UNCHANGED <<cVars, aVars>>

(***************************************************************************)
(* The four phase operations.                                              *)
(***************************************************************************)
RunModuleInit_Begin == Begin("RunModuleInit", StateModuleInit)
RunModuleInit_Hook == FailFastIteration("RunModuleInit")
RunModuleInit_Return == ReturnNil("RunModuleInit")

\* mutant: the state is Running from the start of the call
RunAppBootstrap_Begin_Running == Begin("RunAppBootstrap", StateRunning)

RunAppBootstrap_Begin == Begin("RunAppBootstrap", StateAppBootstrap)
RunAppBootstrap_Hook == FailFastIteration("RunAppBootstrap")
\* mutant: the state is left at AppBootstrap
RunAppBootstrap_Return_NoRunning ==
    /\ lpc.op = "RunAppBootstrap"
    /\ lpc.loop = "return"
    /\ lpc' = Idle
    /\ ret' = Nil
    /\ UNCHANGED <<state, modules, providers, shutdownHooks, invoked, nextId,
                   callSeq, stateTrace, hookCalls, hookLog, provLog>>
    /\ UNCHANGED <<cVars, aVars>>

\* m.state = StateRunning; return nil
RunAppBootstrap_Return ==
    /\ lpc.op = "RunAppBootstrap"
    /\ lpc.loop = "return"
    /\ SetState(StateRunning)
    /\ lpc' = Idle
    /\ ret' = Nil
    /\ UNCHANGED <<modules, providers, shutdownHooks, invoked, nextId, callSeq,
                   hookCalls, hookLog, provLog>>
    /\ UNCHANGED <<cVars, injLog, gVars, observed, registerRet>>

RunAppShutdown_Begin == Begin("RunAppShutdown", StateAppShutdown)
RunAppShutdown_Hook == BestEffortIteration("RunAppShutdown")
RunAppShutdown_Return == ReturnNil("RunAppShutdown")

RunModuleDestroy_Begin == Begin("RunModuleDestroy", StateModuleDestroy)
RunModuleDestroy_Hook == BestEffortIteration("RunModuleDestroy")
RunModuleDestroy_Return == ReturnNil("RunModuleDestroy")

\* m.stateMutex.RLock(); return m.state
GetState == state

\* the call in progress is inside a hook of a module, provider or ad-hoc hook
HookRunning == lpc # Idle /\ lpc.loop # "return" /\ Calls(lpc)

Observation(call, s) ==
    [op |-> lpc.op, hook |-> Callee(lpc), call |-> call, state |-> s]

\* the running hook calls m.GetState()
Hook_GetState ==
    /\ HookRunning
    /\ stateMutex = Unlocked
    /\ observed' = observed \cup {Observation("GetState", GetState)}
    /\ UNCHANGED <<lVars, cVars, injLog, gVars, stateMutex, registerRet>>

\* the running hook of a module or a provider calls m.RegisterShutdownHook(f)
Hook_RegisterShutdownHook ==
    /\ HookRunning
    /\ lpc.loop \in {"modules", "providers"}
    /\ Len(shutdownHooks) < MaxShutdownHooks
    /\ stateMutex = Unlocked
    /\ shutdownHooks' = Append(shutdownHooks, [kind |-> "hook", id |-> nextId])
    /\ nextId' = nextId + 1
    /\ observed' = observed \cup {Observation("RegisterShutdownHook", state)}
    /\ UNCHANGED <<state, modules, providers, lpc, invoked, ret,
                   callSeq, stateTrace, hookCalls, hookLog, provLog>>
    /\ UNCHANGED <<cVars, injLog, gVars, stateMutex, registerRet>>

(***************************************************************************)
(* Drivers.                                                                *)
(***************************************************************************)
RegisterParticipants ==
    \/ \E ms \in SeqsUpTo(ModuleKinds, MaxModules) : RegisterModules(ms)
    \/ \E ps \in SeqsUpTo(ProviderKinds, MaxProviders) : RegisterProviders(ps)
    \/ RegisterShutdownHook

\* modules and ad-hoc hooks registered during assembly
RegisterModulesAndHooks ==
    \/ \E ms \in SeqsUpTo(ModuleKinds, MaxModules) : RegisterModules(ms)
    \/ RegisterShutdownHook

\* what the hook that is running calls on the manager
HookCalls == Hook_GetState \/ Hook_RegisterShutdownHook

\* providers handed to the manager by either of its two operations
RegisterAnyProviders ==
    \/ \E ps \in SeqsUpTo(ProviderKinds, MaxProviders) : RegisterProviders(ps)
    \/ \E ps \in SeqsUpTo(ProviderKinds, MaxProviders) : ExtractLifecycleHooks(ps)

Steps ==
    \/ RunModuleInit_Hook
    \/ RunModuleInit_Return
    \/ RunAppBootstrap_Hook
    \/ RunAppBootstrap_Return
    \/ RunAppShutdown_Hook
    \/ RunAppShutdown_Return
    \/ RunModuleDestroy_Hook
    \/ RunModuleDestroy_Return

\* any phase operation, in any order
FreeCall ==
    \/ Len(callSeq) < MaxCalls /\ RunModuleInit_Begin
    \/ Len(callSeq) < MaxCalls /\ RunAppBootstrap_Begin
    \/ Len(callSeq) < MaxCalls /\ RunAppShutdown_Begin
    \/ Len(callSeq) < MaxCalls /\ RunModuleDestroy_Begin

FullLifecycle ==
    <<"RunModuleInit", "RunAppBootstrap", "RunAppShutdown", "RunModuleDestroy">>

\* the documented order, once each; a startup error ends the run
OrderedCall ==
    \/ callSeq = <<>> /\ RunModuleInit_Begin
    \/ callSeq = SubSeq(FullLifecycle, 1, 1) /\ ret = Nil /\ RunAppBootstrap_Begin
    \/ callSeq = SubSeq(FullLifecycle, 1, 2) /\ ret = Nil /\ RunAppShutdown_Begin
    \/ callSeq = SubSeq(FullLifecycle, 1, 3) /\ RunModuleDestroy_Begin

(***************************************************************************)
(* The dependency container (package di).                                  *)
(***************************************************************************)
\* di.Scope (iota constants)
Singleton == 0
Transient == 1
RequestScoped == 2
Scopes == {Singleton, Transient, RequestScoped}

\* the produced types, and the type of the request handle *gin.Context
Types == {"A", "B"}
GinContext == "gin.Context"

\* a type named A declared in another package whose name is di as well
OtherA == "other/di.A"

\* every produced type: those above, and C and D for larger provider graphs
AllTypes == Types \cup {"C", "D", OtherA}

\* import path and name of a type
PkgPath(t) == IF t = GinContext THEN <<"github.com", "gin-gonic", "gin">>
              ELSE IF t = OtherA THEN <<"goblin", "other", "di">>
              ELSE <<"goblin", "di">>
TypeName(t) == IF t = GinContext THEN "Context"
               ELSE IF t = OtherA THEN "A" ELSE t

\* fmt.Sprintf("%v", t) of a pointer type: "*" package name "." type name
TypeString(t) == <<"*", PkgPath(t)[Len(PkgPath(t))], TypeName(t)>>

\* key := fmt.Sprintf("di:%v", provider.Type)
Key(t) == <<"di:">> \o TypeString(t)
KeySet == {Key(t) : t \in AllTypes}

\* constructor functions: parameter types and result types
NewA == [kind |-> "func", in |-> <<>>, out |-> <<"A">>]
NewAB == [kind |-> "func", in |-> <<"B">>, out |-> <<"A">>]
NewBA == [kind |-> "func", in |-> <<"A">>, out |-> <<"B">>]
NewACtx == [kind |-> "func", in |-> <<GinContext>>, out |-> <<"A">>]
Constructors == {NewA, NewAB, NewBA, NewACtx}

\* a constructor of B without parameters: A and B unrelated
NewB == [kind |-> "func", in |-> <<>>, out |-> <<"B">>]

\* a constructor of the type A of the other package
NewOtherA == [kind |-> "func", in |-> <<>>, out |-> <<OtherA>>]

\* a constructor that takes the type it produces
NewAA == [kind |-> "func", in |-> <<"A">>, out |-> <<"A">>]

\* constructors of a diamond (A takes B and C, both take D), a constructor
\* with two parameters of one type, and one that closes a cycle through D
NewD == [kind |-> "func", in |-> <<>>, out |-> <<"D">>]
NewBD == [kind |-> "func", in |-> <<"D">>, out |-> <<"B">>]
NewCD == [kind |-> "func", in |-> <<"D">>, out |-> <<"C">>]
NewABC == [kind |-> "func", in |-> <<"B", "C">>, out |-> <<"A">>]
NewCDD == [kind |-> "func", in |-> <<"D", "D">>, out |-> <<"C">>]
NewDA == [kind |-> "func", in |-> <<"A">>, out |-> <<"D">>]
Diamond == {NewD, NewBD, NewCD, NewABC}
GraphConstructors == Diamond \cup {NewCDD, NewDA}

\* values Register must refuse: a string, func(), func() (*A, error)
NotAFunction == [kind |-> "string", in |-> <<>>, out |-> <<>>]
NewNothing == [kind |-> "func", in |-> <<>>, out |-> <<>>]
NewAErr == [kind |-> "func", in |-> <<>>, out |-> <<"A", "error">>]

\* the nil interface value: reflect.TypeOf(nil) is the nil Type
NilConstructor == [kind |-> "nil", in |-> <<>>, out |-> <<>>]

AllConstructors ==
    Constructors \cup {NewAA, NotAFunction, NewNothing, NewAErr, NilConstructor}

Threads == 1..NumThreads
Contexts == 1..NumContexts
NilCtx == 0
NoProvider == 0
NoInstance == 0

IdleThread == [stack |-> <<>>, crashed |-> FALSE]

InitContainer ==
    /\ cproviders = [t \in AllTypes |-> NoProvider]
    /\ heap = <<>>
    /\ keys = [c \in Contexts |-> [k \in KeySet |-> NoInstance]]
    /\ threads = [t \in Threads |-> IdleThread]
    /\ insts = <<>>
    /\ results = <<>>
    /\ regLog = <<>>
    /\ injLog = <<>>

\* no GoblinApp constructed yet
InitApp ==
    /\ mmodules = {}
    /\ apc = "none"
    /\ ipending = {}
    /\ startRet = Nil
    /\ spc = "none"
    /\ slpc = Idle
    /\ dpending = {}

Init == InitLifecycle /\ InitContainer /\ InitApp

(***************************************************************************)
(* Register and the cycle validator.                                       *)
(***************************************************************************)
RECURSIVE checkCircularDependencies_KeepVisited(_, _, _)
\* mutant: a parameter type stays in visited for the parameters after it
checkCircularDependencies_KeepVisited(in, i, visited) ==
    IF i > Len(in) THEN Nil
    ELSE LET dependencyType == in[i]
         IN  IF dependencyType \in visited
             THEN <<"circular dependency detected for type", dependencyType>>
             ELSE LET err ==
                        IF dependencyType \in AllTypes
                           /\ cproviders[dependencyType] # NoProvider
                        THEN checkCircularDependencies_KeepVisited(
                                 heap[cproviders[dependencyType]].Constructor.in,
                                 1, visited \cup {dependencyType})
                        ELSE Nil
                  IN  IF err # Nil THEN err
                      ELSE checkCircularDependencies_KeepVisited(
                               in, i + 1, visited \cup {dependencyType})

RECURSIVE checkCircularDependencies(_, _, _)
\* the loop over the parameters of a constructor, from parameter i on
checkCircularDependencies(in, i, visited) ==
    IF i > Len(in) THEN Nil
    ELSE LET dependencyType == in[i]
         IN  IF dependencyType \in visited
             THEN <<"circular dependency detected for type", dependencyType>>
             ELSE LET err ==
                        IF dependencyType \in AllTypes
                           /\ cproviders[dependencyType] # NoProvider
                        THEN checkCircularDependencies(
                                 heap[cproviders[dependencyType]].Constructor.in,
                                 1, visited \cup {dependencyType})
                        ELSE Nil
                  IN  IF err # Nil THEN err
                      ELSE checkCircularDependencies(in, i + 1, visited)

\* constructorType.Kind() on the nil Type: the call panics
NilTypePanic == <<"panic", "invalid memory address or nil pointer dereference">>

\* the error Register returns for a constructor, Nil when it stores it; the
\* panic value when the call panics instead of returning
RegisterError(constructor) ==
    IF constructor.kind = "nil" THEN NilTypePanic
    ELSE IF constructor.kind # "func" THEN <<"constructor must be a function">>
    ELSE IF Len(constructor.out) # 1
    THEN <<"constructor must return exactly one value">>
    ELSE checkCircularDependencies(constructor.in, 1, {})

NewProvider(constructor, scope) ==
    [Type |-> constructor.out[1], Constructor |-> constructor, Scope |-> scope,
     instance |-> NoInstance, mutex |-> Unlocked]

\* the process has not been ended by a stack overflow
Alive == \A t \in Threads : ~threads[t].crashed

\* mutant: the provider is stored before the cycle check
Register_StoreFirst(constructor, scope) ==
    /\ Alive
    /\ LET err == RegisterError(constructor)
       IN  /\ regLog' = Append(regLog, [constructor |-> constructor,
                                        scope |-> scope, err |-> err])
           /\ IF constructor.kind = "func" /\ Len(constructor.out) = 1
              THEN /\ heap' = Append(heap, NewProvider(constructor, scope))
                   /\ cproviders' = [cproviders EXCEPT
                                        ![constructor.out[1]] = Len(heap) + 1]
              ELSE UNCHANGED <<heap, cproviders>>
    /\ UNCHANGED <<keys, threads, insts, results>>
    /\ UNCHANGED <<lVars, aVars>>

Register(constructor, scope) ==
    /\ Alive
    /\ LET err == RegisterError(constructor)
       IN  /\ regLog' = Append(regLog, [constructor |-> constructor,
                                        scope |-> scope, err |-> err])
           /\ IF err = Nil
              THEN /\ heap' = Append(heap, NewProvider(constructor, scope))
                   /\ cproviders' = [cproviders EXCEPT
                                        ![constructor.out[1]] = Len(heap) + 1]
              ELSE UNCHANGED <<heap, cproviders>>
    /\ UNCHANGED <<keys, threads, insts, results>>
    /\ UNCHANGED <<lVars, aVars>>

(***************************************************************************)
(* Resolve.  A thread is a stack of frames, one per nested Resolve call.   *)
(*   pc "rlock"   resolveSingleton about to read the slot under RLock      *)
(*      "lock"    resolveSingleton about to take the provider's Lock       *)
(*      "get"     resolveRequestScoped about to call ctx.Get               *)
(*      "create"  createInstance, next argument is Len(args) + 1           *)
(*      "failed"  createInstance returned the error err                    *)
(***************************************************************************)
\* resolveProvider: where a Resolve of provider p with context ctx starts
Frame(p, ctx) ==
    [prov |-> p, ctx |-> ctx, cctx |-> ctx, args |-> <<>>, err |-> Nil,
     pc |-> CASE heap[p].Scope = Singleton -> "rlock"
              [] heap[p].Scope = Transient -> "create"
              [] heap[p].Scope = RequestScoped ->
                    IF ctx = NilCtx THEN "failed" ELSE "get"]

ContextRequired == <<"context required for request-scoped dependency">>

\* mutant: a request-scoped provider is constructed when there is no context
StartFrame_NoContextCheck(p, ctx) ==
    IF heap[p].Scope = RequestScoped /\ ctx = NilCtx
    THEN [Frame(p, ctx) EXCEPT !.pc = "create"]
    ELSE Frame(p, ctx)

StartFrame(p, ctx) ==
    IF heap[p].Scope = RequestScoped /\ ctx = NilCtx
    THEN [Frame(p, ctx) EXCEPT !.err = ContextRequired]
    ELSE Frame(p, ctx)

Top(t) == threads[t].stack[Len(threads[t].stack)]
Running(t) == threads[t].stack # <<>> /\ ~threads[t].crashed
At(t, pc) == Running(t) /\ Top(t).pc = pc

TopLevelCalls ==
    Cardinality({k \in 1..Len(results) : results[k].depth = 1})
    + Cardinality({t \in Threads : threads[t].stack # <<>>})

\* mutant: a missing provider is not an error
NotFound_NoError(typ) == Nil

NotFound(typ) == <<"no provider registered for type", typ>>

ResultOf(t, depth, typ, ctx, p, inst, err, via) ==
    [thread |-> t, depth |-> depth, type |-> typ, ctx |-> ctx, prov |-> p,
     inst |-> inst, err |-> err, via |-> via]

\* mutant: createInstance goes on with a nil argument when Resolve failed
Receive_IgnoreError(parent, argType, inst, err) ==
    [parent EXCEPT !.args = Append(@, <<"inst", inst>>)]

\* the caller's createInstance receives the result of c.Resolve(argType, ctx)
Receive(parent, argType, inst, err) ==
    IF err = Nil
    THEN [parent EXCEPT !.args = Append(@, <<"inst", inst>>)]
    ELSE [parent EXCEPT !.pc = "failed",
                        !.err = <<"failed to resolve argument", argType, err>>]

\* the top frame of t returns (inst, err) to its caller
Return(t, inst, err, via) ==
    LET st == threads[t].stack
        f == st[Len(st)]
        rest == SubSeq(st, 1, Len(st) - 1)
    IN  /\ results' = Append(results,
                             ResultOf(t, Len(st), heap[f.prov].Type, f.ctx,
                                      f.prov, inst, err, via))
        /\ threads' = [threads EXCEPT ![t].stack =
                          IF rest = <<>> THEN rest
                          ELSE [rest EXCEPT ![Len(rest)] =
                                   Receive(@, heap[f.prov].Type, inst, err)]]

\* Container.Resolve called by the application
Resolve(t, typ, ctx) ==
    /\ threads[t] = IdleThread
    /\ TopLevelCalls < MaxResolves
    /\ IF cproviders[typ] = NoProvider
       THEN /\ results' = Append(results,
                                 ResultOf(t, 1, typ, ctx, NoProvider, NoInstance,
                                          NotFound(typ), "none"))
            /\ UNCHANGED threads
       ELSE /\ threads' = [threads EXCEPT
                              ![t].stack = <<StartFrame(cproviders[typ], ctx)>>]
            /\ UNCHANGED results
    /\ UNCHANGED <<cproviders, heap, keys, insts, regLog>>
    /\ UNCHANGED <<lVars, aVars>>

\* mutant: the slot is not read again once the Lock is held
resolveSingleton_Lock_NoRecheck(t) ==
    /\ At(t, "lock")
    /\ heap[Top(t).prov].mutex = Unlocked
    /\ heap' = [heap EXCEPT ![Top(t).prov].mutex = t]
    /\ threads' = [threads EXCEPT ![t].stack[Len(threads[t].stack)] =
                      [@ EXCEPT !.pc = "create", !.cctx = NilCtx]]
    /\ UNCHANGED results
    /\ UNCHANGED <<cproviders, keys, insts, regLog>>
    /\ UNCHANGED <<lVars, aVars>>

\* resolveSingleton: RLock, read the slot, RUnlock
resolveSingleton_RLock(t) ==
    /\ At(t, "rlock")
    /\ heap[Top(t).prov].mutex = Unlocked
    /\ IF heap[Top(t).prov].instance # NoInstance
       THEN Return(t, heap[Top(t).prov].instance, Nil, "cached")
       ELSE /\ threads' = [threads EXCEPT ![t].stack[Len(threads[t].stack)].pc =
                              "lock"]
            /\ UNCHANGED results
    /\ UNCHANGED <<cproviders, heap, keys, insts, regLog>>
    /\ UNCHANGED <<lVars, aVars>>

\* mutant: one lock for the singletons of all providers
resolveSingleton_Lock_Global(t) ==
    /\ At(t, "lock")
    /\ \A p \in 1..Len(heap) : heap[p].mutex = Unlocked
    /\ IF heap[Top(t).prov].instance # NoInstance
       THEN /\ Return(t, heap[Top(t).prov].instance, Nil, "recheck")
            /\ UNCHANGED heap
       ELSE /\ heap' = [heap EXCEPT ![Top(t).prov].mutex = t]
            /\ threads' = [threads EXCEPT ![t].stack[Len(threads[t].stack)] =
                              [@ EXCEPT !.pc = "create", !.cctx = NilCtx]]
            /\ UNCHANGED results
    /\ UNCHANGED <<cproviders, keys, insts, regLog>>
    /\ UNCHANGED <<lVars, aVars>>

\* mutant: the caller's context is handed on to createInstance
resolveSingleton_Lock_PassContext(t) ==
    /\ At(t, "lock")
    /\ heap[Top(t).prov].mutex = Unlocked
    /\ IF heap[Top(t).prov].instance # NoInstance
       THEN /\ Return(t, heap[Top(t).prov].instance, Nil, "recheck")
            /\ UNCHANGED heap
       ELSE /\ heap' = [heap EXCEPT ![Top(t).prov].mutex = t]
            /\ threads' = [threads EXCEPT ![t].stack[Len(threads[t].stack)].pc =
                              "create"]
            /\ UNCHANGED results
    /\ UNCHANGED <<cproviders, keys, insts, regLog>>
    /\ UNCHANGED <<lVars, aVars>>

\* resolveSingleton: Lock, check the slot again, createInstance(provider, nil)
resolveSingleton_Lock(t) ==
    /\ At(t, "lock")
    /\ heap[Top(t).prov].mutex = Unlocked
    /\ IF heap[Top(t).prov].instance # NoInstance
       THEN /\ Return(t, heap[Top(t).prov].instance, Nil, "recheck")
            /\ UNCHANGED heap
       ELSE /\ heap' = [heap EXCEPT ![Top(t).prov].mutex = t]
            /\ threads' = [threads EXCEPT ![t].stack[Len(threads[t].stack)] =
                              [@ EXCEPT !.pc = "create", !.cctx = NilCtx]]
            /\ UNCHANGED results
    /\ UNCHANGED <<cproviders, keys, insts, regLog>>
    /\ UNCHANGED <<lVars, aVars>>

\* resolveRequestScoped: ctx.Get(key)
resolveRequestScoped_Get(t) ==
    /\ At(t, "get")
    /\ LET cached == keys[Top(t).ctx][Key(heap[Top(t).prov].Type)]
       IN  IF cached # NoInstance
           THEN Return(t, cached, Nil, "cached")
           ELSE /\ threads' = [threads EXCEPT
                                  ![t].stack[Len(threads[t].stack)].pc = "create"]
                /\ UNCHANGED results
    /\ UNCHANGED <<cproviders, heap, keys, insts, regLog>>
    /\ UNCHANGED <<lVars, aVars>>

\* the frame of t at depth j is in createInstance at its first parameter, of
\* a provider that is constructed on every call with context ctx: a transient
\* one, or a request-scoped one the context has no instance of
Reconstructs(t, j, ctx) ==
    LET g == threads[t].stack[j]
    IN  /\ g.pc = "create"
        /\ g.args = <<>>
        /\ g.cctx = ctx
        /\ heap[g.prov].Scope # Singleton
        /\ heap[g.prov].Scope = RequestScoped =>
               (ctx = NilCtx \/ keys[ctx][Key(heap[g.prov].Type)] = NoInstance)

\* the nested Resolve that createInstance is about to make for provider p
\* repeats a call that is open on the stack of t, and the registry as it is
\* leads from that call to this one again: left alone, the recursion has no
\* end and the goroutine's stack overflows
Unbounded(t, p) ==
    LET st == threads[t].stack
        n == Len(st)
    IN  \E i \in 1..n :
           /\ st[i].prov = p
           /\ \A j \in i..n : Reconstructs(t, j, st[n].cctx)
           /\ \A j \in i..(n - 1) :
                 cproviders[heap[st[j].prov].Constructor.in[1]] = st[j + 1].prov

\* a stack overflow is fatal to the process: every goroutine stops
StackOverflow == [u \in Threads |-> [threads[u] EXCEPT !.crashed = TRUE]]

\* createInstance: one iteration of the loop over the constructor's
\* parameters.  The nested Resolve is always made, as in the code, except in
\* a recursion that has no end: that one is followed for MaxDepth frames,
\* and the overflow it ends in is an outcome at any depth
createInstance_Arg(t) ==
    /\ At(t, "create")
    /\ LET f == Top(t)
           in == heap[f.prov].Constructor.in
           n == Len(threads[t].stack)
       IN  /\ Len(f.args) < Len(in)
           /\ LET argType == in[Len(f.args) + 1]
              IN  IF argType = GinContext
                  THEN /\ threads' = [threads EXCEPT ![t].stack[n] =
                              IF f.cctx = NilCtx
                              THEN [f EXCEPT !.pc = "failed",
                                     !.err = <<"gin.Context required but not provided">>]
                              ELSE [f EXCEPT !.args = Append(@, <<"ctx", f.cctx>>)]]
                       /\ UNCHANGED results
                  ELSE IF cproviders[argType] = NoProvider
                  THEN /\ threads' = [threads EXCEPT ![t].stack[n] =
                              Receive(f, argType, NoInstance, NotFound(argType))]
                       /\ results' = Append(results,
                              ResultOf(t, n + 1, argType, f.cctx, NoProvider,
                                       NoInstance, NotFound(argType), "none"))
                  ELSE /\ \/ /\ Unbounded(t, cproviders[argType]) => n < MaxDepth
                             /\ threads' = [threads EXCEPT ![t].stack =
                                   Append(@, StartFrame(cproviders[argType],
                                                        f.cctx))]
                          \/ /\ Unbounded(t, cproviders[argType])
                             /\ threads' = StackOverflow
                       /\ UNCHANGED results
    /\ UNCHANGED <<cproviders, heap, keys, insts, regLog>>
    /\ UNCHANGED <<lVars, aVars>>

\* mutant: the request-scoped instance is stored in every context
createInstance_Call_SharedCache(t) ==
    /\ At(t, "create")
    /\ LET f == Top(t)
           p == f.prov
           inst == Len(insts) + 1
       IN  /\ Len(f.args) = Len(heap[p].Constructor.in)
           /\ insts' = Append(insts, [prov |-> p, args |-> f.args, ctx |-> f.cctx])
           /\ heap' = IF heap[p].Scope = Singleton
                      THEN [heap EXCEPT ![p].instance = inst, ![p].mutex = Unlocked]
                      ELSE heap
           /\ keys' = IF heap[p].Scope = RequestScoped
                      THEN [c \in Contexts |->
                               [keys[c] EXCEPT ![Key(heap[p].Type)] = inst]]
                      ELSE keys
           /\ Return(t, inst, Nil, "created")
    /\ UNCHANGED <<cproviders, regLog>>
    /\ UNCHANGED <<lVars, aVars>>

\* mutant: a transient provider hands out the instance it built before
createInstance_Call_Reuse(t) ==
    /\ At(t, "create")
    /\ LET f == Top(t)
           p == f.prov
           old == {i \in 1..Len(insts) : insts[i].prov = p}
           reuse == heap[p].Scope = Transient /\ old # {}
           inst == IF reuse THEN CHOOSE i \in old : TRUE ELSE Len(insts) + 1
       IN  /\ Len(f.args) = Len(heap[p].Constructor.in)
           /\ insts' = IF reuse THEN insts
                        ELSE Append(insts, [prov |-> p, args |-> f.args,
                                            ctx |-> f.cctx])
           /\ heap' = IF heap[p].Scope = Singleton
                      THEN [heap EXCEPT ![p].instance = inst, ![p].mutex = Unlocked]
                      ELSE heap
           /\ keys' = IF heap[p].Scope = RequestScoped
                      THEN [keys EXCEPT ![f.ctx][Key(heap[p].Type)] = inst]
                      ELSE keys
           /\ Return(t, inst, Nil, "created")
    /\ UNCHANGED <<cproviders, regLog>>
    /\ UNCHANGED <<lVars, aVars>>

\* mutant: resolveSingleton does not store the instance it built
createInstance_Call_NoStore(t) ==
    /\ At(t, "create")
    /\ LET f == Top(t)
           p == f.prov
           inst == Len(insts) + 1
       IN  /\ Len(f.args) = Len(heap[p].Constructor.in)
           /\ insts' = Append(insts, [prov |-> p, args |-> f.args, ctx |-> f.cctx])
           /\ heap' = IF heap[p].Scope = Singleton
                      THEN [heap EXCEPT ![p].mutex = Unlocked]
                      ELSE heap
           /\ keys' = IF heap[p].Scope = RequestScoped
                      THEN [keys EXCEPT ![f.ctx][Key(heap[p].Type)] = inst]
                      ELSE keys
           /\ Return(t, inst, Nil, "created")
    /\ UNCHANGED <<cproviders, regLog>>
    /\ UNCHANGED <<lVars, aVars>>

\* createInstance calls the constructor; the resolve* caller stores and returns
createInstance_Call(t) ==
    /\ At(t, "create")
    /\ LET f == Top(t)
           p == f.prov
           inst == Len(insts) + 1
       IN  /\ Len(f.args) = Len(heap[p].Constructor.in)
           /\ insts' = Append(insts, [prov |-> p, args |-> f.args, ctx |-> f.cctx])
           /\ heap' = IF heap[p].Scope = Singleton
                      THEN [heap EXCEPT ![p].instance = inst, ![p].mutex = Unlocked]
                      ELSE heap
           /\ keys' = IF heap[p].Scope = RequestScoped
                      THEN [keys EXCEPT ![f.ctx][Key(heap[p].Type)] = inst]
                      ELSE keys
           /\ Return(t, inst, Nil, "created")
    /\ UNCHANGED <<cproviders, regLog>>
    /\ UNCHANGED <<lVars, aVars>>

\* mutant: resolveSingleton returns the error without releasing the Lock
resolve_Failed_KeepLock(t) ==
    /\ At(t, "failed")
    /\ UNCHANGED heap
    /\ Return(t, NoInstance, Top(t).err, "none")
    /\ UNCHANGED <<cproviders, keys, insts, regLog>>
    /\ UNCHANGED <<lVars, aVars>>

\* createInstance failed: the resolve* caller returns the error
resolve_Failed(t) ==
    /\ At(t, "failed")
    /\ heap' = IF heap[Top(t).prov].mutex = t /\ heap[Top(t).prov].Scope = Singleton
               THEN [heap EXCEPT ![Top(t).prov].mutex = Unlocked]
               ELSE heap
    /\ Return(t, NoInstance, Top(t).err, "none")
    /\ UNCHANGED <<cproviders, keys, insts, regLog>>
    /\ UNCHANGED <<lVars, aVars>>

(***************************************************************************)
(* Inject.  A target is a pointer to a struct or some other value; a field *)
(* has a type and may carry the `inject` tag.                              *)
(***************************************************************************)
Fields == [type : Types, tagged : BOOLEAN]
Targets == [kind : {"ptrToStruct", "struct"}, fields : SeqsUpTo(Fields, MaxFields)]

\* container := NewContainer(): the registry of a container just created
NewContainer == [t \in Types |-> NoProvider]

\* container.Resolve(field.Type(), nil) on the container Inject creates
InjectResolve(typ) ==
    IF NewContainer[typ] = NoProvider
    THEN [inst |-> NoInstance, err |-> NotFound(typ)]
    ELSE [inst |-> "resolved", err |-> Nil]

RECURSIVE InjectFields(_, _, _)
\* the loop over the fields of the target, from field i on; set is the set of
\* the fields assigned so far
InjectFields(fields, i, set) ==
    IF i > Len(fields) THEN [set |-> set, err |-> Nil]
    ELSE IF ~fields[i].tagged THEN InjectFields(fields, i + 1, set)
    ELSE LET r == InjectResolve(fields[i].type)
         IN  IF r.err # Nil
             THEN [set |-> set, err |-> <<"failed to inject field", i, r.err>>]
             ELSE InjectFields(fields, i + 1, set \cup {i})

Inject(target) ==
    /\ Len(injLog) < MaxInjects
    /\ LET r == IF target.kind # "ptrToStruct"
                THEN [set |-> {}, err |-> <<"target must be a pointer to struct">>]
                ELSE InjectFields(target.fields, 1, {})
       IN  injLog' = Append(injLog,
                            [target |-> target, set |-> r.set, err |-> r.err,
                             registered |-> {t \in Types :
                                               cproviders[t] # NoProvider}])
    /\ UNCHANGED <<lVars, cVars, gVars, hVars>>

ThreadStep(t) ==
    \/ \E typ \in Types, ctx \in Contexts \cup {NilCtx} : Resolve(t, typ, ctx)
    \/ resolveSingleton_RLock(t)
    \/ resolveSingleton_Lock(t)
    \/ resolveRequestScoped_Get(t)
    \/ createInstance_Arg(t)
    \/ createInstance_Call(t)
    \/ resolve_Failed(t)

Registration ==
    /\ Len(regLog) < MaxRegs
    /\ \E constructor \in Constructors, scope \in Scopes :
          Register(constructor, scope)

\* Register called with any value, valid or not
RegistrationAny ==
    /\ Len(regLog) < MaxRegs
    /\ \E constructor \in AllConstructors, scope \in Scopes :
          Register(constructor, scope)

\* registration of providers that do not depend on each other
RegistrationUnrelated ==
    /\ results = <<>>
    /\ \A t \in Threads : threads[t] = IdleThread
    /\ Len(regLog) < MaxRegs
    /\ \E constructor \in {NewA, NewACtx, NewB}, scope \in Scopes :
          Register(constructor, scope)

\* registration of the constructors of larger graphs, cycles included
RegistrationGraph ==
    /\ Len(regLog) < MaxGraphRegs
    /\ \E constructor \in GraphConstructors, scope \in Scopes :
          Register(constructor, scope)

\* the singletons of a diamond or of a part of it (a chain, one provider)
\* are registered during assembly, each type once, in any order
RegistrationSingletons ==
    /\ results = <<>>
    /\ \A t \in Threads : threads[t] = IdleThread
    /\ Len(regLog) < MaxGraphRegs
    /\ \E constructor \in Diamond :
          /\ cproviders[constructor.out[1]] = NoProvider
          /\ Register(constructor, Singleton)

\* the steps of a thread that resolves the types of the diamond
GraphStep(t) ==
    \/ \E typ \in {"A", "B", "C", "D"} : Resolve(t, typ, NilCtx)
    \/ resolveSingleton_RLock(t)
    \/ resolveSingleton_Lock(t)
    \/ createInstance_Arg(t)
    \/ createInstance_Call(t)
    \/ resolve_Failed(t)

\* providers of the two types A of two packages, registered at any time
RegistrationKeys ==
    /\ Len(regLog) < MaxRegs
    /\ \E constructor \in {NewA, NewACtx, NewOtherA}, scope \in Scopes :
          Register(constructor, scope)

\* the steps of a thread that resolves the two types A
KeyStep(t) ==
    \/ \E typ \in {"A", OtherA}, ctx \in Contexts \cup {NilCtx} :
          Resolve(t, typ, ctx)
    \/ resolveSingleton_RLock(t)
    \/ resolveSingleton_Lock(t)
    \/ resolveRequestScoped_Get(t)
    \/ createInstance_Arg(t)
    \/ createInstance_Call(t)
    \/ resolve_Failed(t)

\* providers of A that need B or the request, and a provider of B, registered
\* at any time
RegistrationRetry ==
    /\ Len(regLog) < MaxRegs
    /\ \E constructor \in {NewAB, NewB, NewACtx}, scope \in Scopes :
          Register(constructor, scope)

\* registration during application assembly, before the first Resolve
Assembly ==
    /\ results = <<>>
    /\ \A t \in Threads : threads[t] = IdleThread
    /\ Registration

(***************************************************************************)
(* The application (core.GoblinApp).  A module handed to NewGoblinApp is   *)
(* its kind and the providers its metadata lists; the type name under      *)
(* which the ModuleManager files a module is its kind.  Start and Stop run *)
(* in two goroutines: Start in its caller's, Stop in the goroutine that    *)
(* Start creates to wait for a termination signal.                         *)
(***************************************************************************)
AppModules ==
    [kind : ModuleKinds,
     providers : {<<>>} \cup SeqsUpTo(ProviderKinds, MaxModuleProviders)]

Options == {<<>>} \cup SeqsUpTo(AppModules, MaxAppModules)

\* the kinds of the modules of the options, in order
KindsOf(ms) == [k \in 1..Len(ms) |-> ms[k].kind]

\* fmt.Errorf("...: %w", err)
Wrap(msg, err) == <<msg, err>>

\* the errors of the Fx application and of the HTTP listener
FxError == <<"error", "fx">>
ListenError == <<"error", "listen">>

RECURSIVE Collect(_, _, _, _, _)
\* the loop of NewGoblinApp over options.Modules from module i on:
\* RegisterModule files the module unless its name is taken (then the module
\* is skipped), and the providers of its metadata are collected
Collect(ms, i, n, mm, ps) ==
    IF i > Len(ms) THEN [modules |-> mm, providers |-> ps]
    ELSE IF \E m \in mm : m.kind = ms[i].kind
         THEN Collect(ms, i + 1, n, mm, ps)
         ELSE Collect(ms, i + 1, n,
                      mm \cup {[kind |-> ms[i].kind, id |-> n + i - 1]},
                      ps \o ms[i].providers)

\* NewGoblinApp(GoblinAppOptions{Modules: ms}): the modules are filed with
\* the ModuleManager, all of them are registered with the LifecycleManager,
\* and the collected providers go through ExtractLifecycleHooks
NewGoblinApp(ms) ==
    LET c == Collect(ms, 1, nextId, {}, <<>>)
        values == Values(c.providers, nextId + Len(ms))
    IN  /\ apc = "none"
        /\ Assembling
        /\ modules = <<>> /\ providers = <<>> /\ shutdownHooks = <<>>
        /\ mmodules' = c.modules
        /\ modules' = modules \o Values(KindsOf(ms), nextId)
        /\ providers' = providers \o SelectSeq(values, NotFunc)
        /\ provLog' = Append(provLog, [op |-> "ExtractLifecycleHooks",
                                       values |-> values])
        /\ nextId' = nextId + Len(ms) + Len(values)
        /\ apc' = "built"
        /\ UNCHANGED <<state, shutdownHooks, lpc, invoked, ret, callSeq,
                       stateTrace, hookCalls, hookLog>>
        /\ UNCHANGED <<ipending, startRet, spc, slpc, dpending>>
        /\ UNCHANGED <<cVars, injLog, hVars>>

\* fmt.Errorf("module %s is already registered", moduleName)
AlreadyRegistered(kind) == <<"module is already registered", kind>>

RECURSIVE RegisterLoop(_, _, _, _)
\* the loop of GoblinApp.RegisterModules over its modules from module i on;
\* errs[i] tells whether the OnModuleInit of module i returns an error.  st
\* holds the module map, the lifecycle manager's providers, the histories,
\* the identity of the next provider and the value returned
RegisterLoop(ms, errs, i, st) ==
    IF i > Len(ms) THEN [st EXCEPT !.ret = Nil]
    ELSE IF \E m \in st.mm : m.kind = ms[i].kind
    THEN [st EXCEPT !.ret = Wrap("failed to register module",
                                 AlreadyRegistered(ms[i].kind))]
    ELSE LET id == st.first + i - 1
             values == Values(ms[i].providers, st.n)
             called == [st EXCEPT
                          !.mm = @ \cup {[kind |-> ms[i].kind, id |-> id]},
                          !.ps = @ \o SelectSeq(values, NotFunc),
                          !.plog = Append(@, [op |-> "ExtractLifecycleHooks",
                                              values |-> values]),
                          !.hlog = Append(@, <<id, "OnModuleInit">>),
                          !.n = @ + Len(values)]
         IN  IF errs[i]
             THEN [called EXCEPT
                      !.ret = Wrap("failed to initialize module",
                                   HookError(id, "OnModuleInit"))]
             ELSE RegisterLoop(ms, errs, i + 1, called)

\* app.RegisterModules(ms...), between NewGoblinApp and Start: all the
\* modules go to the LifecycleManager first; then each module is filed with
\* the ModuleManager, its providers go through ExtractLifecycleHooks and its
\* OnModuleInit is called; a name that is taken or a hook error ends the call
App_RegisterModules ==
    /\ apc = "built"
    /\ Assembling
    /\ \E ms \in SeqsUpTo(AppModules, MaxAppModules) :
          \E errs \in [1..Len(ms) -> BOOLEAN] :
             LET r == RegisterLoop(ms, errs, 1,
                         [mm |-> mmodules, ps |-> providers, plog |-> provLog,
                          hlog |-> hookLog, first |-> nextId,
                          n |-> nextId + Len(ms), ret |-> Nil])
             IN  /\ Len(modules) + Len(ms) <= MaxAppModules
                 /\ modules' = modules \o Values(KindsOf(ms), nextId)
                 /\ mmodules' = r.mm
                 /\ providers' = r.ps
                 /\ provLog' = r.plog
                 /\ hookLog' = r.hlog
                 /\ hookCalls' = hookCalls \cup
                                    {r.hlog[k] : k \in 1..Len(r.hlog)}
                 /\ nextId' = r.n
                 /\ registerRet' = r.ret
    /\ UNCHANGED <<state, shutdownHooks, lpc, invoked, ret, callSeq, stateTrace>>
    /\ UNCHANGED <<apc, ipending, startRet, spc, slpc, dpending>>
    /\ UNCHANGED <<cVars, injLog, stateMutex, observed>>

\* a hook called outside the Run* call of the Start goroutine
CallHook(id, hook) ==
    /\ hookCalls' = hookCalls \cup {<<id, hook>>}
    /\ hookLog' = Append(hookLog, <<id, hook>>)

\* Start up to the call of InitializeModules: signal.Notify and the
\* goroutine that waits for the signal
Start_Notify ==
    /\ apc = "built"
    /\ apc' = "InitializeModules"
    /\ ipending' = mmodules
    /\ startRet' = Pending
    /\ UNCHANGED <<lVars, cVars, injLog, hVars>>
    /\ UNCHANGED <<mmodules, spc, slpc, dpending>>

\* one iteration of  for _, module := range m.modules  in InitializeModules:
\* the map is ranged over in any order, and an error ends Start
InitializeModules_Hook ==
    /\ apc = "InitializeModules"
    /\ \E m \in ipending : \E err \in {Nil, HookError(m.id, "OnModuleInit")} :
          /\ CallHook(m.id, "OnModuleInit")
          /\ IF err # Nil
             THEN /\ apc' = "returned"
                  /\ startRet' =
                        Wrap("failed to initialize modules",
                             Wrap("failed to initialize module", err))
                  /\ ipending' = ipending
             ELSE /\ ipending' = ipending \ {m}
                  /\ UNCHANGED <<apc, startRet>>
    /\ UNCHANGED <<state, modules, providers, shutdownHooks, lpc, invoked,
                   ret, nextId, callSeq, stateTrace, provLog>>
    /\ UNCHANGED <<mmodules, spc, slpc, dpending>>
    /\ UNCHANGED <<cVars, injLog, hVars>>

\* InitializeModules returns nil
InitializeModules_Return ==
    /\ apc = "InitializeModules"
    /\ ipending = {}
    /\ apc' = "RunModuleInit"
    /\ UNCHANGED <<lVars, cVars, injLog, hVars>>
    /\ UNCHANGED <<mmodules, ipending, startRet, spc, slpc, dpending>>

\* g.lifecycleManager.RunModuleInit(ctx) is called
Start_RunModuleInit ==
    /\ apc = "RunModuleInit"
    /\ callSeq = <<>>
    /\ RunModuleInit_Begin

\* mutant: Start goes on after RunModuleInit returned an error
Start_AfterRunModuleInit_Continue ==
    /\ apc = "RunModuleInit"
    /\ lpc = Idle /\ callSeq = <<"RunModuleInit">>
    /\ apc' = "appStart"
    /\ UNCHANGED startRet
    /\ UNCHANGED <<lVars, cVars, injLog, hVars>>
    /\ UNCHANGED <<mmodules, ipending, spc, slpc, dpending>>

\* if err := RunModuleInit(ctx); err != nil { return fmt.Errorf(...) }
Start_AfterRunModuleInit ==
    /\ apc = "RunModuleInit"
    /\ lpc = Idle /\ callSeq = <<"RunModuleInit">>
    /\ IF ret # Nil
       THEN /\ apc' = "returned"
            /\ startRet' =
                  Wrap("failed to run module initialization hooks", ret)
       ELSE /\ apc' = "appStart"
            /\ UNCHANGED startRet
    /\ UNCHANGED <<lVars, cVars, injLog, hVars>>
    /\ UNCHANGED <<mmodules, ipending, spc, slpc, dpending>>

\* if err := g.app.Start(startCtx); err != nil { return fmt.Errorf(...) }
Fx_Start ==
    /\ apc = "appStart"
    /\ \E err \in {Nil, FxError} :
          IF err # Nil
          THEN /\ apc' = "returned"
               /\ startRet' = Wrap("failed to start application", err)
          ELSE /\ apc' = "RunAppBootstrap"
               /\ UNCHANGED startRet
    /\ UNCHANGED <<lVars, cVars, injLog, hVars>>
    /\ UNCHANGED <<mmodules, ipending, spc, slpc, dpending>>

\* g.lifecycleManager.RunAppBootstrap(ctx) is called
Start_RunAppBootstrap ==
    /\ apc = "RunAppBootstrap"
    /\ callSeq = <<"RunModuleInit">>
    /\ RunAppBootstrap_Begin

\* if err := RunAppBootstrap(ctx); err != nil { return fmt.Errorf(...) }
Start_AfterRunAppBootstrap ==
    /\ apc = "RunAppBootstrap"
    /\ lpc = Idle /\ callSeq = <<"RunModuleInit", "RunAppBootstrap">>
    /\ IF ret # Nil
       THEN /\ apc' = "returned"
            /\ startRet' =
                  Wrap("failed to run application bootstrap hooks", ret)
       ELSE /\ apc' = "EngineRun"
            /\ UNCHANGED startRet
    /\ UNCHANGED <<lVars, cVars, injLog, hVars>>
    /\ UNCHANGED <<mmodules, ipending, spc, slpc, dpending>>

\* return g.Engine.Run(port): the server listens and serves, which does not
\* return, or the listener fails and Run returns its error
Engine_Run ==
    /\ apc = "EngineRun"
    /\ \/ apc' = "serving" /\ UNCHANGED startRet
       \/ apc' = "returned" /\ startRet' = ListenError
    /\ UNCHANGED <<lVars, cVars, injLog, hVars>>
    /\ UNCHANGED <<mmodules, ipending, spc, slpc, dpending>>

\* the HTTP server was started
Serving == apc = "serving"

\* the goroutine of Start that waits for the signal exists
Handling == apc \notin {"none", "built"}

\* the state assignment that opens a Run* operation called by Stop
Stop_Begin(from, op, s) ==
    /\ spc = from
    /\ slpc = Idle
    /\ SetState(s)
    /\ spc' = op
    /\ slpc' = EnterModules(op)
    /\ UNCHANGED <<modules, providers, shutdownHooks, lpc, invoked, ret,
                   nextId, callSeq, hookCalls, hookLog, provLog>>
    /\ UNCHANGED <<mmodules, apc, ipending, startRet, dpending>>
    /\ UNCHANGED <<cVars, injLog, observed, registerRet>>

\* one iteration of a best-effort loop of a Run* operation called by Stop
Stop_Iteration(op) ==
    /\ spc = op
    /\ slpc.op = op
    /\ slpc.loop \in {"modules", "providers", "hooks"}
    /\ IF Calls(slpc)
       THEN CallHook(Entry(slpc).id, Callee(slpc))
       ELSE UNCHANGED <<hookCalls, hookLog>>
    /\ slpc' = After(slpc)
    /\ UNCHANGED <<state, modules, providers, shutdownHooks, lpc, invoked,
                   ret, nextId, callSeq, stateTrace, provLog>>
    /\ UNCHANGED <<mmodules, apc, ipending, startRet, spc, dpending>>
    /\ UNCHANGED <<cVars, injLog, hVars>>

\* <-sigCh; g.Stop(): RunAppShutdown is called
Stop_RunAppShutdown ==
    /\ Handling
    /\ Stop_Begin("none", "RunAppShutdown", StateAppShutdown)

Stop_RunAppShutdown_Hook == Stop_Iteration("RunAppShutdown")

\* RunAppShutdown returns nil and DestroyModules is called
Stop_RunAppShutdown_Return ==
    /\ spc = "RunAppShutdown"
    /\ slpc.op = "RunAppShutdown" /\ slpc.loop = "return"
    /\ spc' = "DestroyModules"
    /\ slpc' = Idle
    /\ dpending' = mmodules
    /\ UNCHANGED <<lVars, cVars, injLog, hVars>>
    /\ UNCHANGED <<mmodules, apc, ipending, startRet>>

\* one iteration of  for _, module := range m.modules  in DestroyModules:
\* an error ends the loop, and Stop logs it
DestroyModules_Hook ==
    /\ spc = "DestroyModules"
    /\ \E m \in dpending :
          /\ CallHook(m.id, "OnModuleDestroy")
          /\ \/ dpending' = dpending \ {m} /\ spc' = spc
             \/ dpending' = dpending /\ spc' = "destroyed"
    /\ UNCHANGED <<state, modules, providers, shutdownHooks, lpc, invoked,
                   ret, nextId, callSeq, stateTrace, provLog>>
    /\ UNCHANGED <<mmodules, apc, ipending, startRet, slpc>>
    /\ UNCHANGED <<cVars, injLog, hVars>>

\* DestroyModules returns nil
DestroyModules_Return ==
    /\ spc = "DestroyModules"
    /\ dpending = {}
    /\ spc' = "destroyed"
    /\ UNCHANGED <<lVars, cVars, injLog, hVars>>
    /\ UNCHANGED <<mmodules, apc, ipending, startRet, slpc, dpending>>

Stop_RunModuleDestroy ==
    Stop_Begin("destroyed", "RunModuleDestroy", StateModuleDestroy)

Stop_RunModuleDestroy_Hook == Stop_Iteration("RunModuleDestroy")

\* RunModuleDestroy returns nil; return g.app.Stop(stopCtx)
Stop_RunModuleDestroy_Return ==
    /\ spc = "RunModuleDestroy"
    /\ slpc.op = "RunModuleDestroy" /\ slpc.loop = "return"
    /\ spc' = "returned"
    /\ slpc' = Idle
    /\ UNCHANGED <<lVars, cVars, injLog, hVars>>
    /\ UNCHANGED <<mmodules, apc, ipending, startRet, dpending>>

\* the steps of the goroutine that called Start
StartStep ==
    \/ Start_Notify
    \/ InitializeModules_Hook
    \/ InitializeModules_Return
    \/ Start_RunModuleInit
    \/ RunModuleInit_Hook
    \/ RunModuleInit_Return
    \/ Start_AfterRunModuleInit
    \/ Fx_Start
    \/ Start_RunAppBootstrap
    \/ RunAppBootstrap_Hook
    \/ RunAppBootstrap_Return
    \/ Start_AfterRunAppBootstrap
    \/ Engine_Run

\* the steps of the goroutine that calls Stop when the signal arrives
StopStep ==
    \/ Stop_RunAppShutdown
    \/ Stop_RunAppShutdown_Hook
    \/ Stop_RunAppShutdown_Return
    \/ DestroyModules_Hook
    \/ DestroyModules_Return
    \/ Stop_RunModuleDestroy
    \/ Stop_RunModuleDestroy_Hook
    \/ Stop_RunModuleDestroy_Return

\* app.RegisterShutdownHook(hook), between NewGoblinApp and Start
App_RegisterShutdownHook ==
    /\ apc = "built"
    /\ Len(shutdownHooks) < MaxAppHooks
    /\ RegisterShutdownHook

\* an application is built, started, and stopped by a signal at any time
NextApp ==
    \/ \E ms \in Options : NewGoblinApp(ms)
    \/ App_RegisterModules
    \/ App_RegisterShutdownHook
    \/ StartStep
    \/ StopStep

\* providers registered during assembly, then Resolve called by any number
\* of threads
Next == Assembly \/ \E t \in Threads : ThreadStep(t)

\* Register and Resolve called by one thread
NextSequential == Registration \/ ThreadStep(1)

\* Register called with any value and Resolve, by one thread
NextRegistry == RegistrationAny \/ ThreadStep(1)

\* unrelated providers registered during assembly, then concurrent Resolve
NextUnrelated == RegistrationUnrelated \/ \E t \in Threads : ThreadStep(t)

\* singletons that depend on singletons, resolved by any number of threads
NextGraph == RegistrationSingletons \/ \E t \in Threads : GraphStep(t)

\* phase operations whose hooks call back into the manager
NextHooks == RegisterModulesAndHooks \/ FreeCall \/ Steps \/ HookCalls

\* types of the same name in two packages, resolved by one thread
NextKeys == RegistrationKeys \/ KeyStep(1)

\* a dependency registered after a Resolve that needed it, by one thread
NextRetry == RegistrationRetry \/ ThreadStep(1)

\* Register called on the constructors of larger graphs
NextCycleCheck == RegistrationGraph

\* providers registered in a container, and Inject called on targets
NextInject == Registration \/ \E target \in Targets : Inject(target)

Spec == Init /\ [][Next]_vars
SpecInject == Init /\ [][NextInject]_vars
SpecUnrelated == Init /\ [][NextUnrelated]_vars
SpecSequential == Init /\ [][NextSequential]_vars
SpecRegistry == Init /\ [][NextRegistry]_vars
SpecCycleCheck == Init /\ [][NextCycleCheck]_vars
SpecHooks == Init /\ [][NextHooks]_vars
SpecRetry == Init /\ [][NextRetry]_vars
SpecKeys == Init /\ [][NextKeys]_vars

\* every thread that can take a step eventually takes one
SpecGraph ==
    Init /\ [][NextGraph]_vars /\ \A t \in Threads : WF_vars(GraphStep(t))

NextLifecycle == RegisterParticipants \/ FreeCall \/ Steps
NextFullLifecycle == RegisterParticipants \/ OrderedCall \/ Steps

NextProviders == RegisterAnyProviders \/ FreeCall \/ Steps

SpecLifecycle == Init /\ [][NextLifecycle]_vars
SpecProviders == Init /\ [][NextProviders]_vars
SpecFullLifecycle == Init /\ [][NextFullLifecycle]_vars
SpecApp == Init /\ [][NextApp]_vars

(***************************************************************************)
(* Lifecycle properties.                                                   *)
(***************************************************************************)
LastCall == IF callSeq = <<>> THEN "none" ELSE callSeq[Len(callSeq)]
Returned(op) == lpc = Idle /\ LastCall = op

Ids(list) == {list[k].id : k \in 1..Len(list)}
KindOf(list, id) == list[CHOOSE k \in 1..Len(list) : list[k].id = id].kind

\* the identities of S in the order of their registration
Ascending(S) ==
    CHOOSE f \in [1..Cardinality(S) -> S] :
        \A a, b \in 1..Cardinality(S) : a < b => f[a] < f[b]

Descending(S) ==
    CHOOSE f \in [1..Cardinality(S) -> S] :
        \A a, b \in 1..Cardinality(S) : a < b => f[a] > f[b]

\* the registered modules / providers that have the hook
Hooked(list, hook) == {id \in Ids(list) : Implements(KindOf(list, id), hook)}

\* the hooks a complete forward phase calls: modules, then providers
ForwardOrder(hook) ==
    Ascending(Hooked(modules, hook)) \o Ascending(Hooked(providers, hook))

InvokedIds == [k \in 1..Len(invoked) |-> invoked[k].id]
IsPrefix(s, t) == Len(s) <= Len(t) /\ s = SubSeq(t, 1, Len(s))
Count(id) == Cardinality({k \in 1..Len(invoked) : invoked[k].id = id})

FailFast(op) ==
    Returned(op) =>
        /\ IsPrefix(InvokedIds, ForwardOrder(HookOf(op)))
        /\ \A k \in 1..Len(invoked) : k < Len(invoked) => invoked[k].err = Nil
        /\ ret = Nil =>
              /\ InvokedIds = ForwardOrder(HookOf(op))
              /\ \A k \in 1..Len(invoked) : invoked[k].err = Nil
        /\ ret # Nil => /\ invoked # <<>>
                        /\ ret = invoked[Len(invoked)].err

\* C3: RunModuleInit and RunAppBootstrap are fail-fast: the hooks invoked are
\* the prefix of the modules-then-providers registration order that ends with
\* the first hook that errs, and the call returns that hook's error.
C3_FailFast == FailFast("RunModuleInit") /\ FailFast("RunAppBootstrap")

\* a startup phase returned the error of a hook and left later hooks uncalled
C3_Witness ==
    /\ Returned("RunModuleInit")
    /\ Len(invoked) = 2
    /\ ret = invoked[2].err
    /\ ret # Nil
    /\ Len(ForwardOrder("OnModuleInit")) > 2

\* C4: RunAppShutdown is best-effort: one call invokes every module's and
\* provider's OnApplicationShutdown hook and every ad-hoc shutdown hook
\* exactly once, whichever of them return errors.
C4_ShutdownBestEffort ==
    Returned("RunAppShutdown") =>
        /\ \A id \in Hooked(modules, "OnApplicationShutdown") : Count(id) = 1
        /\ \A id \in Hooked(providers, "OnApplicationShutdown") : Count(id) = 1
        /\ \A id \in Ids(shutdownHooks) : Count(id) = 1
        /\ Len(invoked) = Cardinality(Hooked(modules, "OnApplicationShutdown"))
                          + Cardinality(Hooked(providers, "OnApplicationShutdown"))
                          + Len(shutdownHooks)

\* a shutdown in which the first hook erred and three more hooks still ran
C4_Witness ==
    /\ Returned("RunAppShutdown")
    /\ Len(invoked) >= 4
    /\ invoked[1].err # Nil
    /\ \E k \in 1..Len(invoked) : invoked[k].list = "hooks" /\ invoked[k].err # Nil

\* C8: the lifecycle state is monotonically non-decreasing: no Run* call, in
\* any sequence of calls, moves the state to an earlier phase.
C8_StateMonotonic == [][state' >= state]_vars

\* C9: the four phase operations called once each in the documented order,
\* no startup hook erring, take the state through NotStarted, ModuleInit,
\* AppBootstrap, Running, AppShutdown, ModuleDestroy, no phase skipped or
\* repeated, and call every hook of every module and provider and every
\* ad-hoc shutdown hook; the final state is ModuleDestroy.
C9_FullLifecycle ==
    /\ IsPrefix(stateTrace, <<StateNotStarted, StateModuleInit, StateAppBootstrap,
                              StateRunning, StateAppShutdown, StateModuleDestroy>>)
    /\ (callSeq = FullLifecycle /\ lpc = Idle) =>
          /\ stateTrace = <<StateNotStarted, StateModuleInit, StateAppBootstrap,
                            StateRunning, StateAppShutdown, StateModuleDestroy>>
          /\ GetState = StateModuleDestroy
          /\ \A h \in HookKinds :
                \A id \in Hooked(modules, h) \cup Hooked(providers, h) :
                    <<id, h>> \in hookCalls
          /\ \A id \in Ids(shutdownHooks) : <<id, "hook">> \in hookCalls

\* a completed full run with two modules, a provider and a shutdown hook
C9_Witness ==
    /\ callSeq = FullLifecycle
    /\ lpc = Idle
    /\ Len(modules) >= 2
    /\ Len(providers) >= 1
    /\ \A k \in 1..2 : modules[k].kind = "Full"
    /\ providers[1].kind = "Full"
    /\ Len(shutdownHooks) >= 1

\* C10: RunModuleInit sets the state to ModuleInit and, when no hook errs,
\* calls OnModuleInit on every module in registration order and only then on
\* every provider in registration order.
C10_ModuleInitOrder ==
    /\ LastCall = "RunModuleInit" => GetState = StateModuleInit
    /\ (Returned("RunModuleInit") /\ ret = Nil) =>
          /\ InvokedIds = ForwardOrder("OnModuleInit")
          /\ \A k \in 1..Len(invoked) : invoked[k].hook = "OnModuleInit"
          /\ \A a, b \in 1..Len(invoked) :
                (invoked[a].list = "providers" /\ invoked[b].list = "modules")
                    => b < a

\* a successful RunModuleInit over modules and providers registered by
\* interleaved registration calls
C10_Witness ==
    /\ Returned("RunModuleInit")
    /\ ret = Nil
    /\ Len(invoked) >= 3
    /\ Len(modules) >= 2
    /\ modules[1].id < providers[1].id
    /\ providers[1].id < modules[2].id

\* the identities of the entries of list that have the hook, in list order
InOrder(list, hook) ==
    LET has(e) == Implements(e.kind, hook)
        sel == SelectSeq(list, has)
    IN  [k \in 1..Len(sel) |-> sel[k].id]

Reverse(s) == [k \in 1..Len(s) |-> s[Len(s) + 1 - k]]

\* C11: the state Running is entered only by a RunAppBootstrap call in which
\* every OnApplicationBootstrap hook succeeded: a RunAppBootstrap that returns
\* an error returns with the state AppBootstrap, and GetState gives Running
\* only once a RunAppBootstrap has returned nil.
C11_RunningOnlyAfterBootstrap ==
    /\ (Returned("RunAppBootstrap") /\ ret # Nil) =>
          GetState = StateAppBootstrap
    /\ GetState = StateRunning =>
          /\ Returned("RunAppBootstrap")
          /\ ret = Nil
          /\ InvokedIds = InOrder(modules, "OnApplicationBootstrap")
                          \o InOrder(providers, "OnApplicationBootstrap")
          /\ \A k \in 1..Len(invoked) : invoked[k].err = Nil
    /\ \A k \in 1..Len(stateTrace) :
          stateTrace[k] = StateRunning =>
              k > 1 /\ stateTrace[k - 1] = StateAppBootstrap

\* a RunAppBootstrap whose second hook erred, after an earlier RunAppBootstrap
\* had reached Running
C11_Witness ==
    /\ Returned("RunAppBootstrap")
    /\ ret # Nil
    /\ Len(invoked) >= 2
    /\ GetState = StateAppBootstrap
    /\ \E k \in 1..Len(stateTrace) : stateTrace[k] = StateRunning

\* the order of a complete RunAppShutdown
ShutdownOrder ==
    InOrder(modules, "OnApplicationShutdown")
    \o InOrder(providers, "OnApplicationShutdown")
    \o [k \in 1..Len(shutdownHooks) |-> shutdownHooks[k].id]

\* C12: one RunAppShutdown call invokes the OnApplicationShutdown hooks of the
\* modules in registration order, then those of the providers in registration
\* order, then the ad-hoc shutdown hooks in registration order; no ad-hoc hook
\* runs before the last module or provider hook has returned.
C12_ShutdownOrder ==
    LastCall = "RunAppShutdown" =>
        /\ IsPrefix(InvokedIds, ShutdownOrder)
        /\ lpc = Idle => InvokedIds = ShutdownOrder
        /\ \A a, b \in 1..Len(invoked) :
              (invoked[a].list = "hooks" /\ invoked[b].list # "hooks") => b < a
        /\ \A a, b \in 1..Len(invoked) :
              (invoked[a].list = "providers" /\ invoked[b].list = "modules")
                  => b < a

\* a complete shutdown over two modules, a provider and two ad-hoc hooks, the
\* first of them registered before the modules and the provider
C12_Witness ==
    /\ Returned("RunAppShutdown")
    /\ Len(modules) >= 2
    /\ Len(providers) >= 1
    /\ Len(shutdownHooks) >= 2
    /\ Len(invoked) >= 5
    /\ shutdownHooks[1].id < modules[1].id
    /\ shutdownHooks[1].id < providers[1].id
    /\ invoked[Len(invoked)].id = shutdownHooks[2].id

\* C13: RunModuleDestroy sets the state to ModuleDestroy and calls
\* OnModuleDestroy on the modules from the last registered to the first, then
\* on the providers from the last registered to the first, each exactly once
\* whatever the hooks return, and returns nil.
C13_ModuleDestroyOrder ==
    /\ LastCall = "RunModuleDestroy" => GetState = StateModuleDestroy
    /\ Returned("RunModuleDestroy") =>
          /\ InvokedIds = Reverse(InOrder(modules, "OnModuleDestroy"))
                          \o Reverse(InOrder(providers, "OnModuleDestroy"))
          /\ \A k \in 1..Len(invoked) : invoked[k].hook = "OnModuleDestroy"
          /\ \A id \in Hooked(modules, "OnModuleDestroy")
                       \cup Hooked(providers, "OnModuleDestroy") : Count(id) = 1
          /\ ret = Nil

\* a complete RunModuleDestroy over two modules and two providers in which
\* the first hook called, that of the last module, erred
C13_Witness ==
    /\ Returned("RunModuleDestroy")
    /\ Len(modules) >= 2
    /\ Len(providers) >= 2
    /\ Len(invoked) >= 4
    /\ invoked[1].id = modules[Len(modules)].id
    /\ invoked[1].err # Nil
    /\ invoked[Len(invoked)].id = providers[1].id

\* the participants on which the hook was invoked, over all calls, in order
LogOf(hook) ==
    LET is(c) == c[2] = hook
        sel == SelectSeq(hookLog, is)
    IN  [k \in 1..Len(sel) |-> sel[k][1]]

\* C14: over a full lifecycle, for the modules and providers that have both
\* OnModuleInit and OnModuleDestroy, the OnModuleDestroy calls come in exactly
\* the reverse of the order of the OnModuleInit calls: a participant
\* initialised earlier is destroyed later.
C14_DestroyReversesInit ==
    (callSeq = FullLifecycle /\ lpc = Idle) =>
        LET inits == LogOf("OnModuleInit")
            destroys == LogOf("OnModuleDestroy")
        IN  \A a, b \in 1..Len(inits) : \A c, d \in 1..Len(destroys) :
                (a < b /\ destroys[c] = inits[a] /\ destroys[d] = inits[b])
                    => d < c

RECURSIVE Retained(_, _)
\* the provider list the first n calls of provLog leave; filtered says
\* whether RegisterProviders drops function values as ExtractLifecycleHooks
\* does
Retained(n, filtered) ==
    IF n = 0 THEN <<>>
    ELSE Retained(n - 1, filtered)
         \o (IF provLog[n].op = "ExtractLifecycleHooks" \/ filtered
             THEN SelectSeq(provLog[n].values, NotFunc)
             ELSE provLog[n].values)

\* every value handed to the manager by a logged call
Handed ==
    UNION {{provLog[n].values[k] : k \in 1..Len(provLog[n].values)} :
              n \in 1..Len(provLog)}

\* the function values handed to the manager
FunctionIds == {v.id : v \in {w \in Handed : IsFunc(w)}}

NeverHooked(ids) == \A c \in hookCalls : c[1] \notin ids

\* C23: after RegisterProviders(ps) the provider list holds only the entries
\* of ps that are concrete instances; a bare constructor function is not
\* retained and is never sent a lifecycle hook by any Run* operation.
C23_OnlyInstancesRetained ==
    /\ providers = Retained(Len(provLog), TRUE)
    /\ NeverHooked(FunctionIds)

\* C23 as the code has it: RegisterProviders retains every entry of ps, bare
\* constructor functions included; ExtractLifecycleHooks retains only the
\* entries that are not functions; under either, a bare constructor function
\* is never sent a lifecycle hook by any Run* operation.
C23_FunctionsNeverHooked ==
    /\ providers = Retained(Len(provLog), FALSE)
    /\ NeverHooked(FunctionIds)

\* RegisterProviders kept a function, ExtractLifecycleHooks dropped one and
\* kept an instance, and a RunModuleInit then called the instance's hook
C23_Witness ==
    /\ \E n \in 1..Len(provLog) :
          /\ provLog[n].op = "RegisterProviders"
          /\ \E k \in 1..Len(provLog[n].values) :
                /\ IsFunc(provLog[n].values[k])
                /\ provLog[n].values[k].id \in Ids(providers)
    /\ \E n \in 1..Len(provLog) :
          /\ provLog[n].op = "ExtractLifecycleHooks"
          /\ \E k \in 1..Len(provLog[n].values) :
                /\ IsFunc(provLog[n].values[k])
                /\ provLog[n].values[k].id \notin Ids(providers)
          /\ \E k \in 1..Len(provLog[n].values) :
                /\ NotFunc(provLog[n].values[k])
                /\ <<provLog[n].values[k].id, "OnModuleInit">> \in hookCalls
    /\ Returned("RunModuleInit")

(***************************************************************************)
(* Application properties.                                                 *)
(***************************************************************************)
\* the application has the modules NewGoblinApp was given and no others:
\* RegisterModules, which logs its own ExtractLifecycleHooks, was not called
OnlyOptionsModules == Len(provLog) = 1

\* the application was built from modules whose metadata lists constructor
\* functions only, and at least one
BuiltFromConstructors ==
    /\ apc # "none"
    /\ OnlyOptionsModules
    /\ Handed # {}
    /\ \A v \in Handed : IsFunc(v)

\* the Start goroutine has completed the Run* operation op
Completed(op) ==
    \E n \in 1..Len(callSeq) :
       callSeq[n] = op /\ (n < Len(callSeq) \/ lpc = Idle)

\* C24: in an application NewGoblinApp built from a module whose metadata
\* lists constructor functions of hook-implementing types, the ModuleInit
\* phase calls OnModuleInit on the module and then on each constructed
\* provider, and the shutdown phase calls OnApplicationShutdown on each of
\* them too.
C24_ConstructedProvidersHooked ==
    BuiltFromConstructors =>
       /\ (Completed("RunModuleInit") /\ startRet = Pending) =>
             \A v \in Handed : <<v.id, "OnModuleInit">> \in hookCalls
       /\ spc \notin {"none", "RunAppShutdown"} =>
             \A v \in Handed : <<v.id, "OnApplicationShutdown">> \in hookCalls

StartupHooks == {"OnModuleInit", "OnApplicationBootstrap"}
ShutdownHooks == {"OnApplicationShutdown", "OnModuleDestroy", "hook"}

\* C25: whenever Start runs and Stop is triggered, RunModuleInit completes
\* before RunAppBootstrap begins, RunAppShutdown begins only after
\* RunAppBootstrap completed, RunModuleDestroy begins only after
\* RunAppShutdown completed, and no startup hook runs after a shutdown hook.
C25_PhasesInOrder ==
    /\ "RunAppBootstrap" \in {callSeq[n] : n \in 1..Len(callSeq)} =>
          callSeq[1] = "RunModuleInit"
    /\ spc # "none" => Completed("RunAppBootstrap")
    /\ \A j \in 1..Len(stateTrace) :
          stateTrace[j] = StateModuleDestroy =>
             \E i \in 1..(j - 1) : stateTrace[i] = StateAppShutdown
    /\ \A i, j \in 1..Len(hookLog) :
          (i < j /\ hookLog[i][2] \in ShutdownHooks) =>
             hookLog[j][2] \notin StartupHooks

\* a startup operation of the Start goroutine returned an error
StartupFailed ==
    /\ lpc = Idle
    /\ LastCall \in {"RunModuleInit", "RunAppBootstrap"}
    /\ ret # Nil

\* C26: once RunModuleInit or RunAppBootstrap has returned an error to Start,
\* no further Run* operation is called by Start, the HTTP server is never
\* started, and Start returns a non-nil error that wraps the hook's error.
C26_StartupErrorsFatal ==
    /\ [](StartupFailed =>
            /\ ~Serving
            /\ apc \in {LastCall, "returned"}
            /\ apc = "returned" => (startRet # Nil /\ startRet[2] = ret))
    /\ [][StartupFailed => (callSeq' = callSeq /\ ~Serving')]_vars

\* Start has returned the wrapped error of a bootstrap hook that failed after
\* another hook of the call had succeeded
C26_Witness ==
    /\ apc = "returned"
    /\ StartupFailed
    /\ LastCall = "RunAppBootstrap"
    /\ Len(invoked) >= 2
    /\ ret = HookError(invoked[Len(invoked)].id, "OnApplicationBootstrap")
    /\ startRet = Wrap("failed to run application bootstrap hooks", ret)

(***************************************************************************)
(* Container properties.                                                   *)
(***************************************************************************)
ProviderIds == 1..Len(heap)
ResultIds == 1..Len(results)

\* the constructor calls made for provider p
Constructed(p) == {i \in 1..Len(insts) : insts[i].prov = p}

\* the Resolve calls (nested ones included) that returned an instance of p
Resolved(p) == {k \in ResultIds : results[k].prov = p /\ results[k].err = Nil}

\* the scope the Resolve call of result k followed, -1 when no provider
ScopeOfResult(k) ==
    IF results[k].prov = NoProvider THEN -1 ELSE heap[results[k].prov].Scope

\* C1: a Singleton provider's constructor runs exactly once, whatever the
\* interleaving of the Resolve calls, and every call returns that instance.
C1_SingletonOnce ==
    \A p \in ProviderIds :
        heap[p].Scope = Singleton =>
            /\ Cardinality(Constructed(p)) <= 1
            /\ \A k \in Resolved(p) :
                  /\ Cardinality(Constructed(p)) = 1
                  /\ results[k].inst = heap[p].instance
                  /\ results[k].inst \in Constructed(p)

\* two threads raced for the first resolution of a singleton: one built the
\* instance, the other found it when it held the lock
C1_Witness ==
    \E k1, k2 \in ResultIds :
        /\ results[k1].prov = results[k2].prov
        /\ results[k1].prov # NoProvider
        /\ heap[results[k1].prov].Scope = Singleton
        /\ results[k1].thread # results[k2].thread
        /\ results[k1].via = "created"
        /\ results[k2].via = "recheck"
        /\ results[k1].inst = results[k2].inst

CircularError(err) ==
    err # Nil /\ err[1] = "circular dependency detected for type"

\* C2: with provider A taking B and provider B taking A, registered in either
\* order on an empty container, the first Register succeeds and the second
\* fails with a circular-dependency error.
C2_CircularRejected ==
    (/\ Len(regLog) >= 2
     /\ {regLog[1].constructor, regLog[2].constructor} = {NewAB, NewBA})
        => /\ regLog[1].err = Nil
           /\ CircularError(regLog[2].err)

\* C5: sequential resolutions of a RequestScoped type return the same
\* instance for the same context handle and different instances for
\* different handles; a context's cache only holds instances built for it.
C5_RequestScopedPerContext ==
    /\ \A k1, k2 \in ResultIds :
          (/\ k1 < k2
           /\ results[k1].err = Nil
           /\ results[k2].err = Nil
           /\ ScopeOfResult(k1) = RequestScoped
           /\ ScopeOfResult(k2) = RequestScoped
           /\ results[k1].type = results[k2].type)
              => (results[k1].ctx = results[k2].ctx
                     <=> results[k1].inst = results[k2].inst)
    /\ \A c \in Contexts : \A key \in KeySet :
          keys[c][key] # NoInstance => insts[keys[c][key]].ctx = c

\* the second resolution with the same handle was served from the context
C5_Witness ==
    \E k1, k2 \in ResultIds :
        /\ k1 < k2
        /\ ScopeOfResult(k1) = RequestScoped
        /\ ScopeOfResult(k2) = RequestScoped
        /\ results[k1].ctx = results[k2].ctx
        /\ results[k1].via = "created"
        /\ results[k2].via = "cached"
        /\ results[k1].inst = results[k2].inst
        /\ keys[results[k1].ctx][Key(results[k1].type)] = results[k1].inst

\* C6: under concurrent Resolve calls with the same context handle, the
\* constructor of a RequestScoped provider runs at most once per (provider,
\* context) and all those calls return the same instance.
C6_RequestScopedOnce ==
    \A p \in ProviderIds : \A c \in Contexts :
        heap[p].Scope = RequestScoped =>
            /\ Cardinality({i \in Constructed(p) : insts[i].ctx = c}) <= 1
            /\ \A k1, k2 \in Resolved(p) :
                  (results[k1].ctx = c /\ results[k2].ctx = c)
                      => results[k1].inst = results[k2].inst

\* C7: every Resolve of a Transient provider calls the constructor once and
\* returns an instance no earlier call returned; nothing is cached in the
\* provider or in a context.
C7_TransientFresh ==
    /\ \A p \in ProviderIds :
          heap[p].Scope = Transient =>
              /\ heap[p].instance = NoInstance
              /\ Cardinality(Constructed(p)) = Cardinality(Resolved(p))
              /\ \A k \in Resolved(p) :
                    /\ results[k].inst \in Constructed(p)
                    /\ \A j \in ResultIds :
                          j # k => results[j].inst # results[k].inst
    /\ \A c \in Contexts : \A key \in KeySet :
          keys[c][key] # NoInstance =>
              heap[insts[keys[c][key]].prov].Scope # Transient

\* two resolutions of one transient provider returned two instances
C7_Witness ==
    \E k1, k2 \in ResultIds :
        /\ k1 # k2
        /\ results[k1].prov = results[k2].prov
        /\ ScopeOfResult(k1) = Transient
        /\ results[k1].depth = 1
        /\ results[k2].depth = 1
        /\ results[k1].err = Nil
        /\ results[k2].err = Nil
        /\ results[k1].inst # results[k2].inst

\* C15: after any sequence of Register and Resolve calls, re-registration of
\* a produced type included, every successful Resolve of a singleton type
\* returns the instance the first successful Resolve of that type returned.
C15_SingletonNeverReplaced ==
    \A k1, k2 \in ResultIds :
        (/\ k1 < k2
         /\ results[k1].type = results[k2].type
         /\ results[k1].err = Nil
         /\ results[k2].err = Nil
         /\ ScopeOfResult(k1) = Singleton
         /\ ScopeOfResult(k2) = Singleton)
            => results[k1].inst = results[k2].inst

\* the parameters of provider p whose type has a RequestScoped provider
RequestScopedParams(p) ==
    {j \in 1..Len(heap[p].Constructor.in) :
        LET R == heap[p].Constructor.in[j]
        IN  /\ R \in Types
            /\ cproviders[R] # NoProvider
            /\ heap[cproviders[R]].Scope = RequestScoped}

\* C16: for a provider P of any scope whose constructor has a parameter of a
\* RequestScoped type R, Resolve(P, ctx) with a non-nil ctx succeeds and
\* P's constructor receives the R instance cached for ctx, the one
\* Resolve(R, ctx) returns.
C16_RequestContextPropagated ==
    \A k \in ResultIds :
        (/\ results[k].depth = 1
         /\ results[k].ctx # NilCtx
         /\ results[k].prov # NoProvider
         /\ RequestScopedParams(results[k].prov) # {})
            => /\ results[k].err = Nil
               /\ \A j \in RequestScopedParams(results[k].prov) :
                     LET arg == insts[results[k].inst].args[j]
                         R == heap[results[k].prov].Constructor.in[j]
                     IN  /\ arg[1] = "inst"
                         /\ insts[arg[2]].ctx = results[k].ctx
                         /\ arg[2] = keys[results[k].ctx][Key(R)]

\* the arguments of constructor call i that are instances of singletons
SingletonArgs(i) ==
    {j \in 1..Len(insts[i].args) :
        /\ insts[i].args[j][1] = "inst"
        /\ heap[insts[insts[i].args[j][2]].prov].Scope = Singleton}

\* C17: for a Transient provider T whose constructor takes the type of a
\* Singleton provider S, any two Resolve(T) calls return distinct T instances
\* built with the identical S instance, and S's constructor ran once.
C17_TransientSharesSingleton ==
    /\ \A i \in 1..Len(insts) :
          heap[insts[i].prov].Scope = Transient =>
              \A j \in SingletonArgs(i) :
                  LET s == insts[i].args[j][2]
                  IN  /\ heap[insts[s].prov].instance = s
                      /\ Constructed(insts[s].prov) = {s}
    /\ \A k1, k2 \in ResultIds :
          (/\ k1 # k2
           /\ results[k1].prov = results[k2].prov
           /\ ScopeOfResult(k1) = Transient
           /\ results[k1].err = Nil
           /\ results[k2].err = Nil)
              => /\ results[k1].inst # results[k2].inst
                 /\ \A j \in SingletonArgs(results[k1].inst) :
                       insts[results[k1].inst].args[j]
                           = insts[results[k2].inst].args[j]

\* two threads resolved a transient provider that takes a singleton: two
\* instances, one shared singleton argument
C17_Witness ==
    \E k1, k2 \in ResultIds :
        /\ k1 # k2
        /\ results[k1].depth = 1
        /\ results[k2].depth = 1
        /\ results[k1].thread # results[k2].thread
        /\ results[k1].prov = results[k2].prov
        /\ ScopeOfResult(k1) = Transient
        /\ results[k1].err = Nil
        /\ results[k2].err = Nil
        /\ results[k1].inst # results[k2].inst
        /\ SingletonArgs(results[k1].inst) # {}
        /\ insts[results[k1].inst].args = insts[results[k2].inst].args

\* the Register call that returns in this step returned an error (or panicked)
RegisterFailed == Len(regLog') = Len(regLog) + 1 /\ regLog'[Len(regLog')].err # Nil

\* C18: a Register call that returns an error leaves the registry as it was:
\* the set of registered types is unchanged and the entry of the type the
\* constructor produces, with its constructor, scope and cached instance,
\* is not altered.
C18_FailedRegisterNoChange ==
    [][RegisterFailed => UNCHANGED <<cproviders, heap>>]_vars

\* a Register of a constructor producing A failed, on a registry whose entry
\* for A holds a cached instance
C18_Witness ==
    /\ Len(regLog) >= 2
    /\ regLog[1].err = Nil
    /\ regLog[2].err # Nil
    /\ regLog[2].constructor.kind = "func"
    /\ Len(regLog[2].constructor.out) >= 1
    /\ regLog[2].constructor.out[1] = "A"
    /\ cproviders["A"] # NoProvider
    /\ heap[cproviders["A"]].Constructor = regLog[1].constructor
    /\ heap[cproviders["A"]].Scope = regLog[1].scope
    /\ heap[cproviders["A"]].instance # NoInstance

InvalidProviderErrors ==
    {<<"constructor must be a function">>,
     <<"constructor must return exactly one value">>}

\* C19: Register returns an invalid-provider error and stores nothing for
\* every value that is not a function and for every function that does not
\* return exactly one value; it returns no such error for a function with
\* exactly one return value.
C19_InvalidProviderRejected ==
    [][Len(regLog') = Len(regLog) + 1 =>
          LET call == regLog'[Len(regLog')]
          IN  IF call.constructor.kind = "func" /\ Len(call.constructor.out) = 1
              THEN call.err \notin InvalidProviderErrors
              ELSE /\ call.err \in InvalidProviderErrors
                   /\ UNCHANGED <<cproviders, heap>>]_vars

\* the Resolve call that returns in this step was the Resolve of a
\* RequestScoped provider with a nil context
ReturnsNilContext ==
    /\ Len(results') = Len(results) + 1
    /\ results'[Len(results')].prov # NoProvider
    /\ heap[results'[Len(results')].prov].Scope = RequestScoped
    /\ results'[Len(results')].ctx = NilCtx

\* C20: Resolve of a RequestScoped provider with a nil context fails with the
\* context-required error; the constructor is not called and no cache, of a
\* context or of a singleton, is modified.
C20_ContextRequired ==
    /\ [](\A i \in 1..Len(insts) :
             heap[insts[i].prov].Scope = RequestScoped => insts[i].ctx # NilCtx)
    /\ [][ReturnsNilContext =>
             /\ results'[Len(results')].err = ContextRequired
             /\ results'[Len(results')].inst = NoInstance
             /\ UNCHANGED <<insts, keys, cproviders>>
             /\ \A p \in ProviderIds : heap'[p].instance = heap[p].instance]_vars

\* Resolve(T, nil) of a RequestScoped T failed with the context-required
\* error after T had been built and cached for a context
C20_Witness ==
    \E k \in ResultIds :
        /\ results[k].depth = 1
        /\ ScopeOfResult(k) = RequestScoped
        /\ results[k].ctx = NilCtx
        /\ results[k].err = ContextRequired
        /\ Constructed(results[k].prov) # {}
        /\ \E c \in Contexts : keys[c][Key(results[k].type)] # NoInstance

\* the Resolve call that returns in this step
Returning == Len(results') = Len(results) + 1
LastResult == results'[Len(results')]

\* C21: Resolve of a type with no registered provider, with any context,
\* returns the provider-not-found error and no instance; no constructor is
\* called and neither the container nor a context changes.
C21_ProviderNotFound ==
    [][(Returning /\ LastResult.prov = NoProvider) =>
          /\ <<"no provider registered for type", LastResult.type>>
                = LastResult.err
          /\ LastResult.inst = NoInstance
          /\ UNCHANGED <<insts, keys, heap, cproviders>>]_vars

\* Resolve of an unregistered type failed, with a context, on a container
\* that holds a singleton built by an earlier Resolve
C21_Witness ==
    /\ \E k \in ResultIds :
          /\ results[k].depth = 1
          /\ results[k].prov = NoProvider
          /\ results[k].ctx # NilCtx
          /\ results[k].err # Nil
          /\ results[k].err[1] = "no provider registered for type"
    /\ \E p \in ProviderIds : heap[p].instance # NoInstance

\* the result with which the caller of the nested call of result k returned
ParentResults(k) ==
    {j \in ResultIds :
        /\ j > k
        /\ results[j].thread = results[k].thread
        /\ results[j].depth = results[k].depth - 1
        /\ \A i \in ResultIds :
              (k < i /\ i < j /\ results[i].thread = results[k].thread)
                  => results[i].depth > results[j].depth}

\* C22: when the resolution of a direct or transitive constructor parameter
\* of provider P fails, Resolve(P) returns an error and no instance, the
\* error names the parameter type that failed and carries its error, P's
\* constructor is not called and nothing is cached for P.
C22_FailurePropagates ==
    /\ \A k \in ResultIds :
          (results[k].depth > 1 /\ results[k].err # Nil) =>
              \A j \in ParentResults(k) :
                  /\ <<"failed to resolve argument", results[k].type,
                       results[k].err>> = results[j].err
                  /\ results[j].inst = NoInstance
                  /\ results[k].type \in
                        {heap[results[j].prov].Constructor.in[a] :
                            a \in 1..Len(heap[results[j].prov].Constructor.in)}
    /\ \A k \in ResultIds :
          results[k].err # Nil => results[k].inst = NoInstance
    /\ \A i \in 1..Len(insts) :
          \E k \in ResultIds : /\ results[k].inst = i
                               /\ results[k].via = "created"
                               /\ results[k].err = Nil
                               /\ results[k].prov = insts[i].prov
    /\ \A p \in ProviderIds :
          heap[p].instance # NoInstance => heap[p].instance \in Constructed(p)
    /\ \A c \in Contexts : \A key \in KeySet :
          keys[c][key] # NoInstance => keys[c][key] \in 1..Len(insts)

\* Resolve(B) failed because the parameter of its parameter A could not be
\* supplied: B's constructor was not called and B's slot is empty
C22_Witness ==
    \E k \in ResultIds :
        /\ results[k].depth = 1
        /\ results[k].type = "B"
        /\ results[k].err # Nil
        /\ results[k].err[1] = "failed to resolve argument"
        /\ results[k].err[2] = "A"
        /\ results[k].err[3] # <<"no provider registered for type", "A">>
        /\ Constructed(results[k].prov) = {}
        /\ heap[results[k].prov].instance = NoInstance

\* C27: singleton caching takes one lock per provider: a thread that
\* resolves a provider waits only while the lock of that very provider is
\* held, so while one thread is constructing singleton A a Resolve of an
\* unrelated singleton B runs to completion.
C27_PerProviderLock ==
    \A t \in Threads :
        (Running(t) /\ ~ENABLED ThreadStep(t)) =>
            /\ heap[Top(t).prov].Scope = Singleton
            /\ heap[Top(t).prov].mutex # Unlocked

\* thread 1 holds the lock of singleton A and thread 2, at the same time, the
\* lock of singleton B: both are constructing, neither instance is built yet
C27_Witness ==
    \E a, b \in ProviderIds :
        /\ a # b
        /\ heap[a].Scope = Singleton
        /\ heap[b].Scope = Singleton
        /\ heap[a].Type # heap[b].Type
        /\ heap[a].mutex = 1
        /\ heap[b].mutex = 2
        /\ heap[a].instance = NoInstance
        /\ heap[b].instance = NoInstance
        /\ At(1, "create")
        /\ At(2, "create")
        /\ Top(1).prov = a
        /\ Top(2).prov = b

\* the tagged fields of a target
Tagged(target) ==
    {i \in 1..Len(target.fields) : target.fields[i].tagged}

\* C28: once providers for the types of the fields are registered in a
\* container, Inject on a pointer to a struct returns no error and sets every
\* field tagged `inject` to a resolved instance; untagged fields are not set.
C28_InjectSetsFields ==
    \A k \in 1..Len(injLog) :
        (/\ injLog[k].target.kind = "ptrToStruct"
         /\ \A i \in 1..Len(injLog[k].target.fields) :
               injLog[k].target.fields[i].type \in injLog[k].registered)
            => /\ injLog[k].err = Nil
               /\ injLog[k].set = Tagged(injLog[k].target)

\* the registered types among the parameters of the constructor registered
\* for type t
Edges(t) ==
    IF cproviders[t] = NoProvider THEN {}
    ELSE {d \in Types :
            /\ cproviders[d] # NoProvider
            /\ \E a \in 1..Len(heap[cproviders[t]].Constructor.in) :
                  heap[cproviders[t]].Constructor.in[a] = d}

RECURSIVE ReachIn(_, _)
\* the types reached from the set S in at most n more edges
ReachIn(S, n) ==
    IF n = 0 THEN S ELSE ReachIn(S \cup UNION {Edges(x) : x \in S}, n - 1)

\* C29: after any sequence of successful Register calls the graph from each
\* registered produced type to the registered types among its constructor's
\* parameters is acyclic.
C29_RegistryAcyclic ==
    \A t \in Types : t \notin ReachIn(Edges(t), Cardinality(Types))

\* thread t waits for a provider lock that a frame of its own stack holds
SelfBlocked(t) ==
    /\ Running(t)
    /\ Top(t).pc \in {"rlock", "lock"}
    /\ heap[Top(t).prov].mutex = t

\* C30: for every registry reachable through Register calls, a Resolve call
\* terminates: it never waits for a provider lock it holds itself and never
\* recurses without bound.
C30_ResolveTerminates ==
    \A t \in Threads : ~SelfBlocked(t) /\ ~threads[t].crashed

\* the registry the first k Register calls leave: for every type the
\* constructor of its provider, as a sequence of one element or of none
RECURSIVE RegistryAt(_)
RegistryAt(k) ==
    IF k = 0 THEN [t \in AllTypes |-> <<>>]
    ELSE IF regLog[k].err = Nil
         THEN [RegistryAt(k - 1) EXCEPT
                  ![regLog[k].constructor.out[1]] = <<regLog[k].constructor>>]
         ELSE RegistryAt(k - 1)

\* the registered types among the parameters of the constructor of t in r
EdgesOf(r, t) ==
    IF r[t] = <<>> THEN {}
    ELSE {d \in AllTypes :
             /\ \E i \in 1..Len(r[t][1].in) : r[t][1].in[i] = d
             /\ r[d] # <<>>}

RECURSIVE ReachOf(_, _, _)
\* the types reached from the set S in at most n further edges of r
ReachOf(r, S, n) ==
    IF n = 0 THEN S
    ELSE ReachOf(r, S \cup UNION {EdgesOf(r, t) : t \in S}, n - 1)

AcyclicGraph(r) ==
    \A t \in AllTypes : t \notin ReachOf(r, EdgesOf(r, t), Cardinality(AllTypes))

\* the registry that would result if the k-th Register call stored its provider
WouldResult(k) ==
    [RegistryAt(k - 1) EXCEPT
        ![regLog[k].constructor.out[1]] = <<regLog[k].constructor>>]

IsCircular(err) ==
    err # Nil /\ err[1] = "circular dependency detected for type"

\* C32: Register returns no circular-dependency error when the graph that
\* would result is acyclic, a diamond and a constructor with two parameters
\* of one registered type included.
C32_NoFalsePositive ==
    \A k \in 1..Len(regLog) :
        AcyclicGraph(WouldResult(k)) => ~IsCircular(regLog[k].err)

\* the diamond is registered, C by the constructor that takes D twice, and
\* A last
C32_Witness ==
    /\ Len(regLog) = 4
    /\ \A k \in 1..4 : regLog[k].err = Nil
    /\ regLog[4].constructor = NewABC
    /\ RegistryAt(4)["B"] = <<NewBD>>
    /\ RegistryAt(4)["C"] = <<NewCDD>>
    /\ RegistryAt(4)["D"] = <<NewD>>
    /\ AcyclicGraph(RegistryAt(4))
    /\ cproviders["A"] # NoProvider

\* the registry now: for every type the constructor of its provider
CurrentRegistry ==
    [t \in AllTypes |->
        IF cproviders[t] = NoProvider THEN <<>>
        ELSE <<heap[cproviders[t]].Constructor>>]

\* every provider registered is a singleton
AllSingletons == \A p \in 1..Len(heap) : heap[p].Scope = Singleton

\* the calls of the constructor of provider p so far
Constructions(p) == {i \in 1..Len(insts) : insts[i].prov = p}

\* C31: in an acyclic graph of singletons that depend on singletons, threads
\* resolving any of the types concurrently never deadlock: every Resolve
\* eventually returns, and each singleton constructor runs at most once
\* (exactly once when a Resolve of the type succeeded).
C31_NoDeadlock ==
    /\ [](AcyclicGraph(CurrentRegistry) /\ AllSingletons =>
            /\ \A p \in 1..Len(heap) : Cardinality(Constructions(p)) <= 1
            /\ \A k \in 1..Len(results) :
                  results[k].inst # NoInstance =>
                     Cardinality(Constructions(results[k].prov)) = 1
            /\ \A t \in Threads : ~threads[t].crashed)
    /\ \A t \in Threads : Running(t) ~> ~Running(t)

\* the diamond is registered; thread 1 resolves A and, inside, B, holding the
\* locks of both, while thread 2 waits for one of these locks
C31_Witness ==
    /\ \A t \in {"A", "B", "C", "D"} : cproviders[t] # NoProvider
    /\ Len(threads[1].stack) >= 2
    /\ heap[threads[1].stack[1].prov].Type = "A"
    /\ heap[threads[1].stack[1].prov].mutex = 1
    /\ heap[threads[1].stack[2].prov].mutex = 1
    /\ Running(2)
    /\ ~ENABLED GraphStep(2)
    /\ heap[Top(2).prov].mutex = 1

\* the calls of Resolve on provider p that returned, as indices of results
ReturnsOf(p) == {k \in 1..Len(results) : results[k].prov = p}

\* C33: a Resolve of a singleton whose construction fails returns the error,
\* leaves the slot empty and releases the lock; a later Resolve constructs
\* again, and once one succeeds its instance is the one cached and returned
\* from then on.
C33_FailureNotCached ==
    \A p \in 1..Len(heap) :
        heap[p].Scope = Singleton =>
           /\ (\A k \in ReturnsOf(p) : results[k].inst = NoInstance) =>
                 heap[p].instance = NoInstance
           /\ \A k \in ReturnsOf(p) :
                 results[k].inst # NoInstance =>
                    /\ heap[p].instance = results[k].inst
                    /\ \A j \in ReturnsOf(p) :
                          j > k => /\ results[j].inst = results[k].inst
                                   /\ results[j].via \in {"cached", "recheck"}
           /\ (\A t \in Threads : threads[t] = IdleThread) =>
                 heap[p].mutex = Unlocked

\* a Resolve of singleton A failed for want of B, B was registered, and the
\* next Resolve of A constructed the instance that is now cached
C33_Witness ==
    \E p \in 1..Len(heap) : \E j, k \in ReturnsOf(p) :
        /\ heap[p].Scope = Singleton
        /\ j < k
        /\ results[j].depth = 1 /\ results[k].depth = 1
        /\ results[j].inst = NoInstance
        /\ results[j].err = <<"failed to resolve argument", "B", NotFound("B")>>
        /\ results[k].via = "created"
        /\ heap[p].instance = results[k].inst
        /\ heap[p].instance # NoInstance

\* the instance was constructed without a request: createInstance had no
\* context, and no argument is a request handle, a request-scoped instance or
\* an instance constructed with a request
RequestFree(i) ==
    /\ insts[i].ctx = NilCtx
    /\ \A a \in 1..Len(insts[i].args) :
          /\ insts[i].args[a][1] = "inst"
          /\ heap[insts[insts[i].args[a][2]].prov].Scope # RequestScoped
          /\ insts[insts[i].args[a][2]].ctx = NilCtx

\* C34: no Singleton instance is constructed from request-specific state:
\* createInstance runs without a context whichever context Resolve was given,
\* so neither the instance nor anything it was built from holds a request
\* handle or a request-scoped instance.
C34_SingletonRequestFree ==
    /\ \A i \in 1..Len(insts) :
          heap[insts[i].prov].Scope = Singleton => RequestFree(i)
    /\ \A i \in 1..Len(insts) : insts[i].ctx = NilCtx => RequestFree(i)
    /\ \A k \in 1..Len(results) :
          /\ results[k].prov # NoProvider
          /\ heap[results[k].prov].Scope = Singleton
          /\ results[k].inst # NoInstance
          => RequestFree(results[k].inst)

\* Resolve with a request context constructed a singleton and the transient
\* dependency it needs, both without the context
C34_Witness ==
    \E k \in 1..Len(results) :
        /\ results[k].ctx # NilCtx
        /\ results[k].depth = 1
        /\ results[k].via = "created"
        /\ heap[results[k].prov].Scope = Singleton
        /\ Len(insts[results[k].inst].args) = 1
        /\ heap[insts[insts[results[k].inst].args[1][2]].prov].Scope = Transient
        /\ insts[results[k].inst].ctx = NilCtx

\* a singleton whose constructor wants the request handle is refused although
\* Resolve was given a context
C34_ContextParameterRefused ==
    \E k \in 1..Len(results) :
        /\ results[k].ctx # NilCtx
        /\ results[k].prov # NoProvider
        /\ heap[results[k].prov].Scope = Singleton
        /\ results[k].err = <<"gin.Context required but not provided">>

\* C35: RunAppShutdown and RunModuleDestroy report the errors of the hooks
\* through the return value: the call returns a non-nil error exactly when at
\* least one of the hooks it invoked returned one.
C35_ShutdownErrorsReported ==
    \A op \in {"RunAppShutdown", "RunModuleDestroy"} :
        Returned(op) =>
           (ret # Nil <=> \E k \in 1..Len(invoked) : invoked[k].err # Nil)

\* C36: a hook that runs inside a Run* operation can call GetState and
\* RegisterShutdownHook: the state lock is free while hooks run.  GetState
\* called inside an OnModuleInit hook returns ModuleInit, and GetState keeps
\* returning ModuleInit after RunModuleInit returned, with or without an
\* error, until another phase operation is called.
C36_HooksMayCallBack ==
    /\ HookRunning => stateMutex = Unlocked /\ ENABLED Hook_GetState
    /\ (/\ HookRunning
        /\ lpc.loop \in {"modules", "providers"}
        /\ Len(shutdownHooks) < MaxShutdownHooks)
          => ENABLED Hook_RegisterShutdownHook
    /\ \A o \in observed :
          o.hook = "OnModuleInit" /\ o.call = "GetState" =>
             o.state = StateModuleInit
    /\ Returned("RunModuleInit") => GetState = StateModuleInit

\* RunModuleInit returned an error after a hook had read the state and
\* registered a shutdown hook from inside OnModuleInit
C36_Witness ==
    /\ Returned("RunModuleInit")
    /\ ret # Nil
    /\ GetState = StateModuleInit
    /\ \E o \in observed :
          o.hook = "OnModuleInit" /\ o.call = "GetState"
    /\ \E o \in observed :
          o.hook = "OnModuleInit" /\ o.call = "RegisterShutdownHook"
    /\ shutdownHooks # <<>>

\* the number of times the hook of the entry with identity id was invoked
TimesCalled(id, hook) ==
    Cardinality({n \in 1..Len(hookLog) : hookLog[n] = <<id, hook>>})

\* C37: during one successful Start the OnModuleInit hook of each module is
\* invoked exactly once, and during one Stop the OnModuleDestroy hook of each
\* module is invoked exactly once.  (The modules are those of the options, so
\* that every call counted is one that Start made.)
C37_ModuleHooksOnce ==
    /\ (Serving /\ OnlyOptionsModules) =>
          \A k \in 1..Len(modules) :
             TimesCalled(modules[k].id, "OnModuleInit") = 1
    /\ spc = "returned" =>
          \A k \in 1..Len(modules) :
             TimesCalled(modules[k].id, "OnModuleDestroy") = 1

\* the Resolve call recorded as results[k] returned a request-scoped instance
RequestScopedResult(k) ==
    /\ results[k].prov # NoProvider
    /\ heap[results[k].prov].Scope = RequestScoped
    /\ results[k].inst # NoInstance

\* C38: within one request context two different RequestScoped types never
\* share a cache slot: Resolve of one type never returns the instance that
\* was returned for another type, also when the two types have the same
\* package name and type name in different packages.
C38_DistinctCacheSlots ==
    \A j, k \in 1..Len(results) :
        (/\ RequestScopedResult(j) /\ RequestScopedResult(k)
         /\ results[j].ctx = results[k].ctx
         /\ results[j].type # results[k].type)
           => /\ results[j].inst # results[k].inst
              /\ Key(results[j].type) # Key(results[k].type)

\* the successful Register calls of a constructor of type t, as indices of regLog
RegistrationsOf(t) ==
    {n \in 1..Len(regLog) :
        /\ regLog[n].err = Nil
        /\ regLog[n].constructor.out[1] = t}

\* the last of them
LastRegistration(t) ==
    regLog[CHOOSE n \in RegistrationsOf(t) :
              \A m \in RegistrationsOf(t) : m <= n]

\* C39: a successful Register of a type that is already registered replaces
\* the whole entry: the type has one provider, with the constructor and the
\* scope of the last successful Register, the entries of the other types are
\* untouched, and every Resolve after it returns an instance made by the
\* provider registered last, never one made by a provider it replaced.
C39_RegisterReplaces ==
    /\ \A t \in AllTypes :
          IF RegistrationsOf(t) = {}
          THEN cproviders[t] = NoProvider
          ELSE /\ cproviders[t] # NoProvider
               /\ heap[cproviders[t]].Type = t
               /\ heap[cproviders[t]].Constructor = LastRegistration(t).constructor
               /\ heap[cproviders[t]].Scope = LastRegistration(t).scope
    /\ \A k \in 1..Len(results) :
          (/\ results[k].inst # NoInstance
           /\ heap[insts[results[k].inst].prov].Type = results[k].type)
             => insts[results[k].inst].prov = results[k].prov

====
